---- MODULE Spec2Model ----
(***************************************************************************)
(* A model of the Photon JavaScript client bundled with the custom         *)
(* authentication samples (src-client/facebook-js/Photon/                  *)
(* Photon-Javascript_SDK.js): the socket peer (PhotonPeer), its listener   *)
(* registry and keep-alive timer, the room-list reconciliation and the     *)
(* LoadBalancingClient workflow over a master peer and a game peer.        *)
(*                                                                         *)
(* Specifications:                                                         *)
(*   SpecPeer      one PhotonPeer: connect, disconnect, sendOperation,     *)
(*                 keep-alive timer, socket events                         *)
(*   SpecDispatch  one PhotonPeer: listener registry and receive pipeline  *)
(*   SpecFrames    one PhotonPeer: socket messages of several frames       *)
(*   SpecRooms     the master peer's GameList / GameListUpdate listeners   *)
(*   SpecLB        LoadBalancingClient with its master and game peers      *)
(*   SpecLBLive    SpecLB with the fairness of the socket events           *)
(*   SpecLite      LitePeer: join, leave, raiseEvent and their responses   *)
(*   SpecAuth      SpecLB with setCustomAuthentication                     *)
(*   SpecCodec     _encode / _decode on bounded messages                   *)
(*   SpecVals      _parseMessageValuesArrayToJSON on bounded arrays        *)
(*   SpecRegistry  the listener registry on its own                        *)
(*   SpecSample    the Authenticate action of the sample controllers       *)
(*   SpecProps     the PropertiesChanged and Join event listeners          *)
(*   SpecSet       setCustomProperty of the room and of the actors         *)
(*   SpecStatus    one PhotonPeer with status listeners and socket closes  *)
(*   SpecSession   one PhotonPeer: the session id message                  *)
(*   SpecRoute     _onMessageReceived on bounded envelopes                 *)
(*   SpecParams    the parameter arrays of the operations                  *)
(***************************************************************************)
EXTENDS Integers, Sequences, FiniteSets, TLC

VARIABLES
    \* ---- PhotonPeer (SpecPeer, SpecDispatch)
    peer,                  \* _isConnecting, _isConnected, _isClosing, _sessionid
    socket,                \* readyState of this._socket, "none" before connect()
    keepAliveTimeoutMs,    \* public member, 5000 after construction
    keepAliveTimer,        \* this.keepAliveTimer: id of the last timer set
    timers,                \* pending setTimeout callbacks (ids)
    listeners,             \* _peerStatusListeners, _eventListeners, _responseListeners
    closeRequested,        \* history: disconnect() called, no connect status since
    last,                  \* what the last handler run did (observable effects)
    \* ---- room list (SpecRooms)
    roomInfos,             \* LoadBalancingClient.roomInfos
    roomsOut,              \* arguments of the last onRoomList / onRoomListUpdate call
    \* ---- LoadBalancingClient (SpecLB)
    state,                 \* LoadBalancingClient.state
    keepMasterConnection,
    reconnectPending,
    masterPeer,            \* peer id, 0 = undefined
    gamePeer,              \* peer id, 0 = undefined
    peers,                 \* the MasterPeer / GamePeer objects with a live socket
    myActorNr,             \* _myActor.actorNr
    actors,                \* LoadBalancingClient.actors
    lbLast,                \* what the last handler run did
    happy,                 \* history: only the create-room scenario ran, no failure
    stateLog,              \* history: onStateChange calls while happy
    apiCalls,              \* history: calls the application made
    faults,                \* history: socket errors, lost connections, error answers
    userAuth,              \* userAuthType, userAuthParameters, userAuthSecret
    issued,                \* history: Secret of the last successful master Authenticate
    disconnectCalled,      \* history: disconnect() called, no connect() or leaveRoom() since
    \* ---- LitePeer (SpecLite)
    lite,                  \* isJoined, actors, _myActor.photonId
    liteLast,              \* what the last LitePeer operation did
    \* ---- _encode / _decode (SpecCodec)
    codecIn,               \* the messages handed to _encode
    codecOut,              \* the encoding and what _decode makes of it
    \* ---- _parseMessageValuesArrayToJSON (SpecVals)
    valsIn,                \* the vals array of a received response
    valsOut,               \* what _onMessageReceived made of it
    \* ---- sample authentication service (SpecSample)
    sampleIn,              \* userName and token of the request
    sampleOut,             \* the Result an endpoint returned
    \* ---- PropertiesChanged event of the game peer (SpecProps)
    propActors,            \* customProperties of the Actor objects, by the actorNr
                           \* they were constructed with (-1: _myActor)
    propRoom,              \* currentRoom: what events wrote to it, _customProperties
    propsLast,             \* what the last event listener did
    \* ---- parameter arrays of the operations (SpecParams)
    paramsIn,              \* the operation called and its arguments
    paramsOut              \* the vals array handed to sendOperation

peerVars == <<peer, socket, keepAliveTimeoutMs, keepAliveTimer, timers,
              listeners, closeRequested, last>>
roomVars == <<roomInfos, roomsOut>>
lbVars   == <<state, keepMasterConnection, reconnectPending, masterPeer, gamePeer,
              peers, myActorNr, actors, lbLast, happy, stateLog, apiCalls, faults,
              userAuth, issued, disconnectCalled>>
liteVars == <<lite, liteLast>>
codecVars == <<codecIn, codecOut>>
valsVars == <<valsIn, valsOut>>
sampleVars == <<sampleIn, sampleOut>>
propsVars == <<propActors, propRoom, propsLast>>
paramsVars == <<paramsIn, paramsOut>>
auxVars  == <<liteVars, codecVars, valsVars, sampleVars, propsVars, paramsVars>>
\* the variables of the other parts, for each part
exceptLite   == <<codecVars, valsVars, sampleVars, propsVars, paramsVars>>
exceptCodec  == <<liteVars, valsVars, sampleVars, propsVars, paramsVars>>
exceptVals   == <<liteVars, codecVars, sampleVars, propsVars, paramsVars>>
exceptSample == <<liteVars, codecVars, valsVars, propsVars, paramsVars>>
exceptProps  == <<liteVars, codecVars, valsVars, sampleVars, paramsVars>>
exceptParams == <<liteVars, codecVars, valsVars, sampleVars, propsVars>>
vars     == <<peerVars, roomVars, lbVars, auxVars>>

(***************************************************************************)
(* Bounds of the model.                                                    *)
(***************************************************************************)
MaxFrames    == 2      \* frames concatenated in one socket message
MaxListeners == 2      \* registrations held by one peer's registry at a time

(***************************************************************************)
(* Strings are sequences of characters.  A JSON text is one character      *)
(* token standing for a whole object literal: JSON.parse accepts exactly a *)
(* single token and throws on anything else.                               *)
(***************************************************************************)
Frame     == <<"~", "m", "~">>
JsonMark  == <<"~", "j", "~">>
NUL       == "NUL"
Digits    == <<"0", "1", "2", "3", "4", "5", "6", "7", "8", "9">>
Undefined == <<"undefined">>

Take(s, n) == SubSeq(s, 1, IF n < Len(s) THEN n ELSE Len(s))
Drop(s, n) == SubSeq(s, (IF n < Len(s) THEN n ELSE Len(s)) + 1, Len(s))
StartsWith(s, p) == Len(s) >= Len(p) /\ SubSeq(s, 1, Len(p)) = p

RECURSIVE Strip(_, _)
Strip(s, c) ==
    IF s = <<>> THEN <<>>
    ELSE IF Head(s) = c THEN Strip(Tail(s), c)
    ELSE <<Head(s)>> \o Strip(Tail(s), c)

\* data.substr(i, 1) == Number(data.substr(i, 1)): decimal digits, and blanks,
\* which Number() turns into 0
IsNumeric(c) == c = " " \/ \E d \in 1..10 : Digits[d] = c
NumericValue(c) == IF c = " " THEN 0 ELSE (CHOOSE d \in 1..10 : Digits[d] = c) - 1

RECURSIVE LeadingNumerics(_)
LeadingNumerics(s) ==
    IF s = <<>> \/ ~IsNumeric(Head(s)) THEN 0 ELSE 1 + LeadingNumerics(Tail(s))

RECURSIVE ToNumber(_, _)
ToNumber(s, acc) ==
    IF s = <<>> THEN acc ELSE ToNumber(Tail(s), 10 * acc + NumericValue(Head(s)))

RECURSIVE NumberToString(_)
NumberToString(n) ==
    IF n < 10 THEN <<Digits[n + 1]>>
    ELSE NumberToString(n \div 10) \o <<Digits[(n % 10) + 1]>>

\* PhotonPeer._encode over already stringified messages
RECURSIVE _encode(_)
_encode(messages) ==
    IF messages = <<>> THEN <<>>
    ELSE Frame \o NumberToString(Len(Head(messages))) \o Frame \o Head(messages)
         \o _encode(Tail(messages))

\* the do-while loop of PhotonPeer._decode
RECURSIVE DecodeLoop(_, _)
DecodeLoop(data, messages) ==
    IF ~StartsWith(data, Frame) THEN messages
    ELSE LET d1     == Drop(data, 3)
             k      == LeadingNumerics(d1)
             broke  == k < Len(d1)
             d2     == IF broke THEN Drop(d1, k + Len(Frame)) ELSE d1
             number == ToNumber(Take(d1, k), 0)
             out    == Append(messages, Take(d2, number))
             d3     == Drop(d2, number)
         IN  IF d3 = <<>> THEN out ELSE DecodeLoop(d3, out)

\* a decoder that skips empty messages
_decode_SkipsEmpty(data) ==
    SelectSeq(DecodeLoop(Strip(data, NUL), <<>>), LAMBDA m : m # <<>>)

_decode(data) == DecodeLoop(Strip(data, NUL), <<>>)

\* Array.prototype.toString: the elements joined with ","
RECURSIVE ArrayToString(_)
ArrayToString(a) ==
    IF a = <<>> THEN <<>>
    ELSE IF Len(a) = 1 THEN a[1]
    ELSE a[1] \o <<",">> \o ArrayToString(Tail(a))

(***************************************************************************)
(* JSON envelopes.  kind is the discriminator the envelope carries.        *)
(***************************************************************************)
Codes      == {"1", "2"}
JsonTokens == {"R1", "R2", "E1", "E2", "I1", "X"}
Envelope(tok) ==
    CASE tok = "R1" -> [kind |-> "res", code |-> "1"]
      [] tok = "R2" -> [kind |-> "res", code |-> "2"]
      [] tok = "E1" -> [kind |-> "evt", code |-> "1"]
      [] tok = "E2" -> [kind |-> "evt", code |-> "2"]
      [] tok = "I1" -> [kind |-> "irs", code |-> "1"]
      [] OTHER      -> [kind |-> "none", code |-> "1"]

\* JSON.parse(message.substr(3)) succeeds
JsonParses(text) == Len(text) = 1 /\ text[1] \in JsonTokens

(***************************************************************************)
(* PhotonPeer: connection flags.                                           *)
(***************************************************************************)
NewPeer == [isConnecting |-> FALSE, isConnected |-> FALSE, isClosing |-> FALSE,
            sessionid |-> Undefined]

Falsy(s) == s = Undefined \/ s = <<>>

_onConnecting(p) == [p EXCEPT !.isConnecting = TRUE]
_onConnect(p) == [p EXCEPT !.isConnecting = FALSE, !.isConnected = TRUE]
_onConnectFailed(p) == [p EXCEPT !.isConnecting = FALSE, !.isConnected = FALSE]
_onDisconnect(p) ==
    [p EXCEPT !.isClosing = FALSE, !.isConnected = FALSE, !.isConnecting = FALSE]
_onError(p) ==
    [p EXCEPT !.isConnecting = FALSE, !.isConnected = FALSE, !.isClosing = FALSE]
\* the status _onDisconnect dispatches, "" for none
DisconnectStatus(p) ==
    IF p.isConnected THEN (IF p.isClosing THEN "disconnect" ELSE "connectClosed")
    ELSE ""
\* a _send that forgets the closing flag
CanSend_IgnoresClosing(p) == p.isConnected
\* the test of _send: this._isConnected && !this._isClosing
CanSend(p) == p.isConnected /\ ~p.isClosing

(***************************************************************************)
(* PhotonPeer: listener registry.  A registry maps a code to has (the code *)
(* is a key of the object) and list (the callbacks, in insertion order).   *)
(***************************************************************************)
StatusCodes == {"connecting", "connect", "connectFailed", "disconnect",
                "connectClosed", "error", "timeout"}
Channels    == {"status", "event", "response"}
Callbacks   == {"f", "g"}
NotAFunction == "notAFunction"
ChannelCodes(ch) == IF ch = "status" THEN StatusCodes ELSE Codes
NoListeners ==
    [ch \in Channels |-> [c \in ChannelCodes(ch) |-> [has |-> FALSE, list |-> <<>>]]]

\* a registry that puts a new listener in front of the others
_addListener_InFront(reg, code, callback) ==
    [reg EXCEPT ![code] =
        [has  |-> TRUE,
         list |-> IF callback \in Callbacks THEN <<callback>> \o reg[code].list
                  ELSE reg[code].list]]

_addListener(reg, code, callback) ==
    [reg EXCEPT ![code] =
        [has  |-> TRUE,
         list |-> IF callback \in Callbacks THEN Append(reg[code].list, callback)
                  ELSE reg[code].list]]

_removeListener(reg, code, callback) ==
    IF reg[code].has
    THEN [reg EXCEPT ![code].list = SelectSeq(reg[code].list, LAMBDA x : x # callback)]
    ELSE reg

_removeListenersForCode(reg, code) ==
    IF reg[code].has THEN [reg EXCEPT ![code].list = <<>>] ELSE reg

\* PhotonPeer._dispatch: the listener calls made, and the value returned
DispatchCalls(reg, ch, code) ==
    IF reg[code].has
    THEN [i \in 1..Len(reg[code].list) |-> <<ch, code, reg[code].list[i]>>]
    ELSE <<>>
_dispatch(reg, code) == reg[code].has

_dispatchPeerStatus(regs, code) == DispatchCalls(regs["status"], "status", code)

_dispatchEvent(regs, code) ==
    IF _dispatch(regs["event"], code)
    THEN DispatchCalls(regs["event"], "event", code)
    ELSE << <<"onUnhandledEvent", code, "">> >>

_dispatchResponse(regs, code) ==
    IF _dispatch(regs["response"], code)
    THEN DispatchCalls(regs["response"], "response", code)
    ELSE << <<"onUnhandledResponse", code, "">> >>

\* registrations held by the three registries together
RECURSIVE CountIn(_, _)
CountIn(reg, S) ==
    IF S = {} THEN 0
    ELSE LET c == CHOOSE x \in S : TRUE
         IN  Len(reg[c].list) + CountIn(reg, S \ {c})
Registered(regs) ==
    CountIn(regs["status"], StatusCodes) + CountIn(regs["event"], Codes)
    + CountIn(regs["response"], Codes)

(***************************************************************************)
(* PhotonPeer: keep-alive timer and send.                                  *)
(***************************************************************************)
KeepAliveDefault == 5000
KeepAliveMin     == 1000
KeepAliveValues  == {KeepAliveMin - 1, KeepAliveMin, KeepAliveDefault}

FreshTimer(pending) == CHOOSE t \in 1..(Cardinality(pending) + 1) : t \notin pending

\* a resetKeepAlive that does not clear the timer it replaces
resetKeepAlive_NoClear(pending, timer, timeoutMs) ==
    IF timeoutMs >= KeepAliveMin
    THEN [timers |-> pending \cup {FreshTimer(pending)}, timer |-> FreshTimer(pending)]
    ELSE [timers |-> pending, timer |-> timer]

\* PhotonPeer.resetKeepAlive: the pending timers and this.keepAliveTimer afterwards
resetKeepAlive(pending, timer, timeoutMs) ==
    LET cleared == pending \ {timer}
    IN  IF timeoutMs >= KeepAliveMin
        THEN [timers |-> cleared \cup {FreshTimer(cleared)}, timer |-> FreshTimer(cleared)]
        ELSE [timers |-> cleared, timer |-> timer]

\* PhotonPeer._send: what is written, whether it throws, the timers afterwards
_send(p, kind, checkConnected, pending, timer, timeoutMs) ==
    IF CanSend(p)
    THEN [writes |-> <<kind>>, threw |-> FALSE,
          keepAlive |-> resetKeepAlive(pending, timer, timeoutMs)]
    ELSE [writes |-> <<>>, threw |-> ~checkConnected,
          keepAlive |-> [timers |-> pending, timer |-> timer]]

\* a sendOperation that hands any data on to _send
sendOperation_AnyData(p, data, pending, timer, timeoutMs) ==
    _send(p, "req", FALSE, pending, timer, timeoutMs)

\* PhotonPeer.sendOperation: data is "array", "undefined" or "other"
sendOperation(p, data, pending, timer, timeoutMs) ==
    IF data \in {"array", "undefined"}
    THEN _send(p, "req", FALSE, pending, timer, timeoutMs)
    ELSE [writes |-> <<>>, threw |-> TRUE,
          keepAlive |-> [timers |-> pending, timer |-> timer]]

DataKinds == {"array", "undefined", "other"}

Did(op, arg, frames, threw, writes, calls) ==
    [op |-> op, arg |-> arg, frames |-> frames, threw |-> threw, writes |-> writes,
     calls |-> calls]

(***************************************************************************)
(* PhotonPeer: operations called by the application.  connect() is called  *)
(* on a peer that holds no live socket.                                    *)
(***************************************************************************)
PeerConnect ==
    /\ socket \in {"none", "closed"}
    /\ socket' = "connecting"
    /\ peer' = _onConnecting(peer)
    /\ last' = Did("connect", "", <<>>, FALSE, <<>>,
                   _dispatchPeerStatus(listeners, "connecting"))
    /\ UNCHANGED <<roomVars, lbVars, auxVars, keepAliveTimeoutMs, keepAliveTimer, timers, listeners, closeRequested>>

PeerDisconnect ==
    /\ peer' = [peer EXCEPT !.isClosing = TRUE]
    /\ socket' = IF socket \in {"connecting", "open"} THEN "closing" ELSE socket
    /\ closeRequested' = (closeRequested \/ peer.isConnected)
    \* this._socket is undefined before the first connect(): close() throws
    /\ last' = Did("disconnect", "", <<>>, socket = "none", <<>>, <<>>)
    /\ UNCHANGED <<roomVars, lbVars, auxVars, keepAliveTimeoutMs, keepAliveTimer, timers, listeners>>

PeerSendOperation(data) ==
    LET r == sendOperation(peer, data, timers, keepAliveTimer, keepAliveTimeoutMs)
    IN  /\ timers' = r.keepAlive.timers
        /\ keepAliveTimer' = r.keepAlive.timer
        /\ last' = Did("sendOperation", data, <<>>, r.threw, r.writes, <<>>)
        /\ UNCHANGED <<roomVars, lbVars, auxVars, peer, socket, keepAliveTimeoutMs, listeners, closeRequested>>

PeerSetKeepAliveTimeout(v) ==
    /\ v # keepAliveTimeoutMs
    /\ keepAliveTimeoutMs' = v
    /\ last' = Did("setKeepAliveTimeoutMs", "", <<>>, FALSE, <<>>, <<>>)
    /\ UNCHANGED <<roomVars, lbVars, auxVars, peer, socket, keepAliveTimer, timers, listeners, closeRequested>>

\* the callback resetKeepAlive passed to setTimeout runs: a single-shot timer
KeepAliveExpire(t) ==
    LET r == _send(peer, "irq", TRUE, timers \ {t}, keepAliveTimer, keepAliveTimeoutMs)
    IN  /\ t \in timers
        /\ timers' = r.keepAlive.timers
        /\ keepAliveTimer' = r.keepAlive.timer
        /\ last' = Did("keepAlive", "", <<>>, r.threw, r.writes, <<>>)
        /\ UNCHANGED <<roomVars, lbVars, auxVars, peer, socket, keepAliveTimeoutMs, listeners, closeRequested>>

(***************************************************************************)
(* PhotonPeer: socket event handlers.                                      *)
(***************************************************************************)
SocketOpen ==
    /\ socket = "connecting"
    /\ socket' = "open"
    /\ last' = Did("open", "", <<>>, FALSE, <<>>, <<>>)
    /\ UNCHANGED <<roomVars, lbVars, auxVars, peer, keepAliveTimeoutMs, keepAliveTimer, timers, listeners,
                   closeRequested>>

\* PhotonPeer._onMessageReceived for a parsed envelope
_onMessageReceived(regs, env) ==
    CASE env.kind = "res"  -> [threw |-> FALSE, calls |-> _dispatchResponse(regs, env.code)]
      [] env.kind = "evt"  -> [threw |-> FALSE, calls |-> _dispatchEvent(regs, env.code)]
      [] env.kind = "irs"  -> [threw |-> FALSE, calls |-> <<>>]
      [] OTHER             -> [threw |-> TRUE,  calls |-> <<>>]

\* PhotonPeer._onMessage: the peer afterwards, whether it threw, the calls made
_onMessage(p, regs, message) ==
    IF StartsWith(message, JsonMark)
    THEN IF JsonParses(Drop(message, 3))
         THEN LET r == _onMessageReceived(regs, Envelope(message[4]))
              IN  [peer |-> p, threw |-> r.threw, calls |-> r.calls, connect |-> FALSE]
         ELSE [peer |-> p, threw |-> TRUE, calls |-> <<>>, connect |-> FALSE]
    ELSE IF Falsy(p.sessionid)
         THEN [peer |-> _onConnect([p EXCEPT !.sessionid = message]), threw |-> FALSE,
               calls |-> _dispatchPeerStatus(regs, "connect"), connect |-> TRUE]
         ELSE [peer |-> p, threw |-> FALSE, calls |-> <<>>, connect |-> FALSE]

\* socket.onmessage: _onMessage(_decode(ev.data).toString())
onmessage(p, regs, data) == _onMessage(p, regs, ArrayToString(_decode(data)))

\* the server frames a list of payloads into one socket message
SocketMessage(frames) ==
    LET r == onmessage(peer, listeners, _encode(frames))
    IN  /\ socket \in {"open", "closing"}
        /\ peer' = r.peer
        /\ closeRequested' = (closeRequested /\ ~r.connect)
        /\ last' = Did("message", "", frames, r.threw, <<>>, r.calls)
        /\ UNCHANGED <<roomVars, lbVars, auxVars, socket, keepAliveTimeoutMs, keepAliveTimer, timers, listeners>>

CloseNormal   == 1000
CloseAbnormal == 1006

\* an onclose that reports the disconnect before the timeout
onclose_TimeoutLast(p, regs, code) ==
    IF p.isConnecting
    THEN [peer |-> _onConnectFailed(p), calls |-> _dispatchPeerStatus(regs, "connectFailed")]
    ELSE [peer  |-> _onDisconnect(p),
          calls |-> (IF DisconnectStatus(p) = "" THEN <<>>
                     ELSE _dispatchPeerStatus(regs, DisconnectStatus(p)))
                    \o (IF code = CloseAbnormal
                        THEN _dispatchPeerStatus(regs, "timeout") ELSE <<>>)]

\* socket.onclose: the peer afterwards and the listener calls made
onclose(p, regs, code) ==
    IF p.isConnecting
    THEN [peer |-> _onConnectFailed(p), calls |-> _dispatchPeerStatus(regs, "connectFailed")]
    ELSE [peer  |-> _onDisconnect(p),
          calls |-> (IF code = CloseAbnormal
                     THEN _dispatchPeerStatus(regs, "timeout") ELSE <<>>)
                    \o (IF DisconnectStatus(p) = "" THEN <<>>
                        ELSE _dispatchPeerStatus(regs, DisconnectStatus(p)))]

\* ev.code of the close event, as last.arg
CloseCode(code) == IF code = CloseAbnormal THEN "1006" ELSE "1000"

SocketClose(code) ==
    LET r == onclose(peer, listeners, code)
    IN  /\ socket \in {"connecting", "open", "closing"}
        /\ socket' = "closed"
        /\ peer' = r.peer
        /\ last' = Did("close", CloseCode(code), <<>>, FALSE, <<>>, r.calls)
        /\ UNCHANGED <<roomVars, lbVars, auxVars, keepAliveTimeoutMs, keepAliveTimer,
                       timers, listeners, closeRequested>>

\* socket.onerror
SocketError ==
    /\ socket \in {"connecting", "open", "closing"}
    /\ peer' = _onError(peer)
    /\ last' = Did("error", "", <<>>, FALSE, <<>>, _dispatchPeerStatus(listeners, "error"))
    /\ UNCHANGED <<roomVars, lbVars, auxVars, socket, keepAliveTimeoutMs, keepAliveTimer, timers, listeners,
                   closeRequested>>

(***************************************************************************)
(* PhotonPeer: listener registration.                                      *)
(***************************************************************************)
AddListener(ch, code, callback) ==
    /\ callback \in Callbacks => Registered(listeners) < MaxListeners
    /\ listeners' = [listeners EXCEPT ![ch] = _addListener(listeners[ch], code, callback)]
    /\ last' = Did("addListener", "", <<>>, FALSE, <<>>, <<>>)
    /\ UNCHANGED <<roomVars, lbVars, auxVars, peer, socket, keepAliveTimeoutMs, keepAliveTimer, timers, closeRequested>>

RemoveListener(ch, code, callback) ==
    /\ listeners' = [listeners EXCEPT ![ch] = _removeListener(listeners[ch], code, callback)]
    /\ last' = Did("removeListener", "", <<>>, FALSE, <<>>, <<>>)
    /\ UNCHANGED <<roomVars, lbVars, auxVars, peer, socket, keepAliveTimeoutMs, keepAliveTimer, timers, closeRequested>>

RemoveListenersForCode(ch, code) ==
    /\ listeners' =
           [listeners EXCEPT ![ch] = _removeListenersForCode(listeners[ch], code)]
    /\ last' = Did("removeListenersForCode", "", <<>>, FALSE, <<>>, <<>>)
    /\ UNCHANGED <<roomVars, lbVars, auxVars, peer, socket, keepAliveTimeoutMs, keepAliveTimer, timers, closeRequested>>

(***************************************************************************)
(* LoadBalancingClient: the room list kept from the master server's        *)
(* GameList and GameListUpdate events.  A game list is the sequence of the *)
(* event's entries in key order, each a room name with its properties; a   *)
(* property object is a record holding the properties it carries.         *)
(***************************************************************************)
RoomNames == {"A", "B", "C"}
RoomProps == {[playerCount |-> 1], [removed |-> TRUE], [removed |-> FALSE],
              [playerCount |-> 1, removed |-> TRUE]}
MaxBatch  == 2

\* new RoomInfo(name)
RoomInfo(name) == [name |-> name, playerCount |-> 0, removed |-> FALSE]

updateIfExists(prevValue, code, props) ==
    IF code \in DOMAIN props THEN props[code] ELSE prevValue

\* an _updateFromProps that leaves the removed flag as it is
_updateFromProps_KeepsRemoved(r, props) ==
    [r EXCEPT !.playerCount = updateIfExists(r.playerCount, "playerCount", props)]

_updateFromProps(r, props) ==
    [r EXCEPT !.playerCount = updateIfExists(r.playerCount, "playerCount", props),
              !.removed     = updateIfExists(r.removed, "removed", props)]

\* index of the first room of the list with this name, 0 if there is none
IndexOfRoom(rooms, name) ==
    IF \E i \in 1..Len(rooms) : rooms[i].name = name
    THEN CHOOSE i \in 1..Len(rooms) :
             /\ rooms[i].name = name
             /\ \A j \in 1..(i - 1) : rooms[j].name # name
    ELSE 0

NamesOf(rooms) == {rooms[i].name : i \in 1..Len(rooms)}

\* the loop of the GameList listener
RECURSIVE GameListLoop(_, _)
GameListLoop(gameList, rooms) ==
    IF gameList = <<>> THEN rooms
    ELSE GameListLoop(Tail(gameList),
             Append(rooms, _updateFromProps(RoomInfo(Head(gameList).name),
                                            Head(gameList).props)))

\* the loop of the GameListUpdate listener
RECURSIVE GameListUpdateLoop(_, _)
GameListUpdateLoop(gameList, acc) ==
    IF gameList = <<>> THEN acc
    ELSE LET g == Head(gameList)
             i == IndexOfRoom(acc.roomInfos, g.name)
         IN  IF i > 0
             THEN LET r == _updateFromProps(acc.roomInfos[i], g.props)
                      a == [acc EXCEPT !.roomInfos[i] = r]
                  IN  GameListUpdateLoop(Tail(gameList),
                          IF r.removed
                          THEN [a EXCEPT !.roomsRemoved = Append(@, r)]
                          ELSE [a EXCEPT !.roomsUpdated = Append(@, r)])
             ELSE LET r == _updateFromProps(RoomInfo(g.name), g.props)
                  IN  GameListUpdateLoop(Tail(gameList),
                          [acc EXCEPT !.roomInfos  = Append(@, r),
                                      !.roomsAdded = Append(@, r)])

\* what the application callback was last handed
RoomsDid(op, gameList, roomsUpdated, roomsAdded, roomsRemoved) ==
    [op |-> op, gameList |-> gameList, roomsUpdated |-> roomsUpdated,
     roomsAdded |-> roomsAdded, roomsRemoved |-> roomsRemoved]

EvGameList(gameList) ==
    /\ roomInfos' = GameListLoop(gameList, <<>>)
    /\ roomsOut' = RoomsDid("onRoomList", gameList, <<>>, <<>>, <<>>)
    /\ UNCHANGED <<peerVars, lbVars, auxVars>>

EvGameListUpdate(gameList) ==
    LET acc == GameListUpdateLoop(gameList,
                   [roomInfos |-> roomInfos, roomsUpdated |-> <<>>,
                    roomsAdded |-> <<>>, roomsRemoved |-> <<>>])
    IN  /\ roomInfos' = SelectSeq(acc.roomInfos, LAMBDA x : ~x.removed)
        /\ roomsOut' = RoomsDid("onRoomListUpdate", gameList, acc.roomsUpdated,
                                acc.roomsAdded, acc.roomsRemoved)
        /\ UNCHANGED <<peerVars, lbVars, auxVars>>

(***************************************************************************)
(* LoadBalancingClient.  The client creates a MasterPeer at every          *)
(* connect() and a GamePeer at every connectToGameServer(); a replaced peer *)
(* keeps its socket and its listeners, which act on the same client.       *)
(* peers holds the peers whose socket can still deliver something, and the *)
(* two the client refers to.  The socket's open event has an empty handler, *)
(* so a socket is "live" (connecting or open), "closing" or "closed".      *)
(* pending is the queue of operations sent and not yet answered: the       *)
(* server answers requests in the order it receives them.                  *)
(***************************************************************************)
Error                    == -1
Uninitialized            == 0
ConnectingToMasterserver == 1
ConnectedToMaster        == 2
JoinedLobby              == 3
ConnectingToGameserver   == 4
ConnectedToGameserver    == 5
Joined                   == 6
Disconnecting            == 7
Disconnected             == 8

MaxPeers   == 3
MaxPending == 2
MaxActorNr == 2
MaxCalls   == 3
MaxFaults  == 1
PeerIds    == 1..MaxPeers
ActorNrs   == 1..MaxActorNr

validNextState(s) ==
    CASE s \in {Error, Uninitialized, Disconnected} -> {ConnectingToMasterserver}
      [] s = ConnectedToMaster                      -> {JoinedLobby}
      [] s = JoinedLobby                            -> {ConnectingToGameserver}
      [] s = ConnectingToGameserver                 -> {ConnectedToGameserver}
      [] s = ConnectedToGameserver                  -> {Joined}
      [] OTHER                                      -> {}

\* a checkNextState that accepts every request
checkNextState_AcceptsAll(s, nextState) == TRUE
\* LoadBalancingClient.checkNextState: TRUE when it returns true, FALSE when it
\* throws (no caller passes dontThrow)
checkNextState(s, nextState) == nextState \in validNextState(s)

FreePeer ==
    [kind |-> "free", sock |-> "closed", isConnecting |-> FALSE, isConnected |-> FALSE,
     isClosing |-> FALSE, sessionid |-> Undefined, createGame |-> FALSE, pending |-> <<>>]

\* new MasterPeer / new GamePeer followed by its connect()
ConnectedPeer(kind, createGame) ==
    _onConnecting([FreePeer EXCEPT !.kind = kind, !.sock = "live",
                                   !.createGame = createGame])

\* the client's fields, with what the running handler did so far: whether it
\* threw, the checkNextState it made, the actors it handed to onActorLeave, the
\* states it handed to onStateChange, the calls it made on its peers in order
\* (trace), and whether it ran out of the model's bounds
Client ==
    [state |-> state, keepMasterConnection |-> keepMasterConnection,
     reconnectPending |-> reconnectPending, masterPeer |-> masterPeer,
     gamePeer |-> gamePeer, peers |-> peers, myActorNr |-> myActorNr,
     actors |-> actors, threw |-> FALSE, check |-> <<>>, leaves |-> <<>>,
     log |-> <<>>, errors |-> 0, observed |-> <<>>, full |-> FALSE,
     userAuth |-> userAuth, issued |-> issued, auth |-> <<>>, trace |-> <<>>,
     onError |-> <<>>]

\* the slots a new peer can take: unused ones, and that of the closed peer it replaces
Reusable(c, current) ==
    {i \in PeerIds : c.peers[i].kind = "free"
                     \/ (i = current /\ c.peers[i].sock = "closed")}
Lowest(S) == CHOOSE i \in S : \A j \in S : i <= j

changeState(c, nextState) ==
    [c EXCEPT !.state = nextState, !.log = Append(@, nextState)]

\* LoadBalancingClient.PeerErrorCode
MasterError == 1001
MasterConnectFailed == 1002
MasterConnectClosed == 1003
MasterTimeout == 1004
MasterAuthenticationFailed == 1101
GameError == 2001
GameConnectFailed == 2002
GameConnectClosed == 2003
GameTimeout == 2004
GameAuthenticationFailed == 2101

\* the error code the failure listener of a peer of this kind hands to onError;
\* failure is the status code it is registered for, or "authenticate" for the
\* Authenticate response listener
ListenerErrorCode(kind, failure) ==
    CASE failure = "error" -> IF kind = "master" THEN MasterError ELSE GameError
      [] failure = "connectFailed"
             -> IF kind = "master" THEN MasterConnectFailed ELSE GameConnectFailed
      [] failure = "timeout" -> IF kind = "master" THEN MasterTimeout ELSE GameTimeout
      [] failure = "connectClosed" -> MasterConnectClosed
      [] failure = "authenticate"
             -> IF kind = "master" THEN MasterAuthenticationFailed
                ELSE GameAuthenticationFailed

\* changeState(State.Error) followed by onError(...), as every failure listener does
raiseError(c, kind, failure) ==
    [changeState(c, Error) EXCEPT
        !.errors = @ + 1,
        !.onError = Append(@, [code |-> ListenerErrorCode(kind, failure), kind |-> kind,
                               failure |-> failure])]

\* a hook that is handed successful responses only
onOperationResponse_SuccessOnly(c, op, ok) ==
    IF c.threw \/ c.full \/ ~ok THEN c ELSE [c EXCEPT !.observed = Append(@, <<op, ok>>)]

\* _onOperationResponseInternal2 at the end of a response listener: the
\* application's onOperationResponse is handed the operation and its outcome
onOperationResponse(c, op, ok) ==
    IF c.threw \/ c.full THEN c ELSE [c EXCEPT !.observed = Append(@, <<op, ok>>)]

\* PhotonPeer.disconnect on the peer id
disconnectPeer(c, id) ==
    [c EXCEPT !.peers[id].isClosing = TRUE,
              !.peers[id].sock = IF @ = "live" THEN "closing" ELSE @,
              !.trace = Append(@, <<c.peers[id].kind, "disconnect">>)]

\* PhotonPeer.sendOperation on the peer id (0: the client holds no such peer)
sendOperationOn(c, id, op) ==
    IF id = 0 \/ ~CanSend(c.peers[id]) THEN [c EXCEPT !.threw = TRUE]
    ELSE IF Len(c.peers[id].pending) >= MaxPending THEN [c EXCEPT !.full = TRUE]
    ELSE [c EXCEPT !.peers[id].pending = Append(@, op),
                   !.trace = Append(@, <<c.peers[id].kind, op>>)]

connect(c, keep) ==
    LET c1 == [c EXCEPT !.reconnectPending = FALSE,
                        !.check = <<c.state, ConnectingToMasterserver>>]
    IN  IF ~checkNextState(c1.state, ConnectingToMasterserver)
        THEN [c1 EXCEPT !.threw = TRUE]
        ELSE IF Reusable(c1, c1.masterPeer) = {} THEN [c1 EXCEPT !.full = TRUE]
        ELSE LET id == Lowest(Reusable(c1, c1.masterPeer))
             IN  [changeState(c1, ConnectingToMasterserver) EXCEPT
                      !.keepMasterConnection = keep,
                      !.masterPeer = id,
                      !.peers[id] = ConnectedPeer("master", FALSE),
                      !.trace = Append(@, <<"master", "connect">>)]

\* a connectToGameServer that leaves the state as it is
connectToGameServer_KeepsState(c, createGame) ==
    LET c1 == IF c.keepMasterConnection THEN c ELSE disconnectPeer(c, c.masterPeer)
        c2 == [c1 EXCEPT !.check = <<c.state, ConnectingToGameserver>>]
    IN  IF ~checkNextState(c2.state, ConnectingToGameserver)
        THEN [c2 EXCEPT !.threw = TRUE]
        ELSE IF Reusable(c2, c2.gamePeer) = {} THEN [c2 EXCEPT !.full = TRUE]
        ELSE LET id == Lowest(Reusable(c2, c2.gamePeer))
                 c3 == IF c2.keepMasterConnection THEN c2
                       ELSE disconnectPeer(c2, c2.masterPeer)
             IN  [c3 EXCEPT !.gamePeer = id,
                            !.peers[id] = ConnectedPeer("game", createGame),
                            !.trace = Append(@, <<"game", "connect">>)]

connectToGameServer(c, createGame) ==
    LET c1 == IF c.keepMasterConnection THEN c ELSE disconnectPeer(c, c.masterPeer)
        c2 == [c1 EXCEPT !.check = <<c.state, ConnectingToGameserver>>]
    IN  IF ~checkNextState(c2.state, ConnectingToGameserver)
        THEN [c2 EXCEPT !.threw = TRUE]
        ELSE IF Reusable(c2, c2.gamePeer) = {} THEN [c2 EXCEPT !.full = TRUE]
        ELSE LET id == Lowest(Reusable(c2, c2.gamePeer))
                 c3 == IF c2.keepMasterConnection THEN c2
                       ELSE disconnectPeer(c2, c2.masterPeer)
             IN  changeState([c3 EXCEPT !.gamePeer = id,
                                        !.peers[id] = ConnectedPeer("game", createGame),
                                        !.trace = Append(@, <<"game", "connect">>)],
                             ConnectingToGameserver)

disconnect(c) ==
    IF c.state # Uninitialized
    THEN LET c1 == IF c.masterPeer # 0 THEN disconnectPeer(c, c.masterPeer) ELSE c
             c2 == IF c1.gamePeer # 0 THEN disconnectPeer(c1, c1.gamePeer) ELSE c1
         IN  changeState(c2, Disconnecting)
    ELSE c

leaveRoom(c) ==
    IF c.state = Joined
    THEN changeState(IF c.gamePeer # 0
                     THEN disconnectPeer([c EXCEPT !.reconnectPending = TRUE], c.gamePeer)
                     ELSE c,
                     Disconnecting)
    ELSE c

(***************************************************************************)
(* LoadBalancingClient: the listeners initMasterPeer and initGamePeer      *)
(* register.  The actor table maps the keys of this.actors to whether the  *)
(* entry is the local actor object.                                        *)
(***************************************************************************)
\* the keys of an object in for-in order: integer keys ascending, then the others
RECURSIVE Ascending(_)
Ascending(S) ==
    IF S = {} THEN <<>> ELSE <<Lowest(S)>> \o Ascending(S \ {Lowest(S)})
KeyOrder(S) == Ascending({k \in S : k >= 0}) \o Ascending({k \in S : k < 0})

addActor(table, nr, isLocal) ==
    [k \in DOMAIN table \cup {nr} |-> IF k = nr THEN isLocal ELSE table[k]]

\* CustomAuthenticationType
AuthCustom == 0
AuthNone   == 255
AuthTypes  == {AuthCustom, AuthNone}
\* values of the authParameters argument of setCustomAuthentication
AuthParameters == {<<"u">>}
\* the Secret in the Authenticate response of the master connection p: a
\* token of that connection
Secret(p) == <<"k", p>>

\* sendOperation(Authenticate, op) on the peer p: the keys pushed to op with the
\* values of the authentication keys
sendAuthenticate(c, p, keys, secret, params) ==
    LET c1 == sendOperationOn(c, p, "Authenticate")
    IN  IF c1.threw \/ c1.full THEN c1
        ELSE [c1 EXCEPT !.auth = Append(@, [kind |-> c.peers[p].kind,
                  keys |-> {"ApplicationId", "AppVersion"} \cup keys,
                  type |-> c.userAuth.type, secret |-> secret, params |-> params])]

MasterOnConnect(c, p) ==
    IF c.userAuth.type # AuthNone
    THEN sendAuthenticate(c, p, {"ClientAuthenticationType", "ClientAuthenticationParams"},
                          <<>>, c.userAuth.parameters)
    ELSE sendAuthenticate(c, p, {}, <<>>, <<>>)

\* an Authenticate listener that does not join the lobby
MasterOnAuthenticate_NoLobbyJoin(c, p, ok) ==
    IF ok THEN changeState([c EXCEPT !.userAuth.secret = Secret(p), !.issued = Secret(p)],
                           ConnectedToMaster)
    ELSE raiseError(c, "master", "authenticate")

MasterOnAuthenticate(c, p, ok) ==
    IF ok THEN sendOperationOn(
                   changeState([c EXCEPT !.userAuth.secret = Secret(p), !.issued = Secret(p)],
                               ConnectedToMaster),
                   p, "JoinLobby")
    ELSE raiseError(c, "master", "authenticate")

MasterOnJoinLobby(c, ok) == IF ok THEN changeState(c, JoinedLobby) ELSE c

\* the CreateGame, JoinGame and JoinRandomGame response listeners of the master peer
MasterOnGame(c, ok, createGame) == IF ok THEN connectToGameServer(c, createGame) ELSE c

\* a connect listener that authenticates with the original parameters
GameOnConnect_SendsParameters(c, p) ==
    IF c.userAuth.type # AuthNone
    THEN sendAuthenticate(c, p, {"ClientAuthenticationType", "ClientAuthenticationParams"},
                          <<>>, c.userAuth.parameters)
    ELSE sendAuthenticate(c, p, {}, <<>>, <<>>)

GameOnConnect(c, p) ==
    IF c.userAuth.type # AuthNone
    THEN sendAuthenticate(c, p, {"ClientAuthenticationType", "Secret"},
                          c.userAuth.secret, <<>>)
    ELSE sendAuthenticate(c, p, {}, <<>>, <<>>)

\* a disconnect listener that keeps the actor table
GameOnDisconnect_KeepsActors(c) ==
    LET c1 == [c EXCEPT !.leaves = @ \o KeyOrder(DOMAIN c.actors)]
    IN  IF c1.masterPeer # 0 /\ c1.peers[c1.masterPeer].isConnected
        THEN changeState(c1, JoinedLobby)
        ELSE LET c2 == changeState(c1, Disconnected)
             IN  IF c2.reconnectPending THEN connect(c2, c2.keepMasterConnection) ELSE c2

\* a disconnect listener that reconnects whether or not a reconnect is pending
GameOnDisconnect_AlwaysReconnects(c) ==
    LET c1 == [c EXCEPT !.leaves = @ \o KeyOrder(DOMAIN c.actors),
                        !.actors = addActor(<<>>, c.myActorNr, TRUE)]
    IN  IF c1.masterPeer # 0 /\ c1.peers[c1.masterPeer].isConnected
        THEN changeState(c1, JoinedLobby)
        ELSE connect(changeState(c1, Disconnected), c1.keepMasterConnection)

GameOnDisconnect(c) ==
    LET c1 == [c EXCEPT !.leaves = @ \o KeyOrder(DOMAIN c.actors),
                        !.actors = addActor(<<>>, c.myActorNr, TRUE)]
    IN  IF c1.masterPeer # 0 /\ c1.peers[c1.masterPeer].isConnected
        THEN changeState(c1, JoinedLobby)
        ELSE LET c2 == changeState(c1, Disconnected)
             IN  IF c2.reconnectPending THEN connect(c2, c2.keepMasterConnection) ELSE c2

GameOnAuthenticate(c, p, ok) ==
    IF ok
    THEN LET c1 == sendOperationOn(c, p, IF c.peers[p].createGame THEN "CreateGame"
                                         ELSE "JoinGame")
         IN  IF c1.threw \/ c1.full THEN c1 ELSE changeState(c1, ConnectedToGameserver)
    ELSE raiseError(c, "game", "authenticate")

GameOnCreateGame(c, ok, nr) ==
    IF ok
    THEN changeState([c EXCEPT !.myActorNr = nr, !.actors = addActor(<<>>, nr, TRUE)],
                     Joined)
    ELSE c

\* the loop of the JoinGame response listener over the keys of the actor list
RECURSIVE AddListed(_, _)
AddListed(table, keys) ==
    IF keys = <<>> THEN table
    ELSE AddListed(addActor(table, Head(keys), FALSE), Tail(keys))

GameOnJoinGame(c, ok, nr, actorList) ==
    IF ok
    THEN changeState([c EXCEPT !.myActorNr = nr,
                               !.actors = AddListed(addActor(<<>>, nr, TRUE),
                                                    KeyOrder(actorList))],
                     Joined)
    ELSE c

GameOnJoinEvent(c, nr) ==
    [c EXCEPT !.actors = addActor(@, nr, nr = c.myActorNr)]

GameOnLeaveEvent(c, nr) ==
    IF nr # 0 /\ nr \in DOMAIN c.actors
    THEN [c EXCEPT !.actors = [k \in DOMAIN c.actors \ {nr} |-> c.actors[k]],
                   !.leaves = Append(@, nr)]
    ELSE c

\* status listeners without one for timeout
OnStatus_NoTimeoutListener(c, p, code) ==
    CASE code \in {"error", "connectFailed", "connectClosed"}
             -> raiseError(c, c.peers[p].kind, code)
      [] code = "connect"
             -> IF c.peers[p].kind = "master" THEN MasterOnConnect(c, p)
                ELSE GameOnConnect(c, p)
      [] code = "disconnect" /\ c.peers[p].kind = "game" -> GameOnDisconnect(c)
      [] OTHER -> c

\* the peer status listeners of the peer p
OnStatus(c, p, code) ==
    CASE code \in {"error", "connectFailed", "timeout", "connectClosed"}
             -> raiseError(c, c.peers[p].kind, code)
      [] code = "connect"
             -> IF c.peers[p].kind = "master" THEN MasterOnConnect(c, p)
                ELSE GameOnConnect(c, p)
      [] code = "disconnect" /\ c.peers[p].kind = "game" -> GameOnDisconnect(c)
      [] OTHER -> c

\* the response listeners of the peer p
OnResponse(c, p, op, ok, nr, actorList) ==
    IF c.peers[p].kind = "master"
    THEN CASE op = "Authenticate" -> MasterOnAuthenticate(c, p, ok)
           [] op = "JoinLobby"    -> onOperationResponse(MasterOnJoinLobby(c, ok), op, ok)
           [] OTHER               ->
                  onOperationResponse(MasterOnGame(c, ok, op = "CreateGame"), op, ok)
    ELSE CASE op = "Authenticate" -> GameOnAuthenticate(c, p, ok)
           [] op = "CreateGame"   -> onOperationResponse(GameOnCreateGame(c, ok, nr), op, ok)
           [] op = "SetProperties" -> onOperationResponse(c, op, ok)
           [] OTHER               ->
                  onOperationResponse(GameOnJoinGame(c, ok, nr, actorList), op, ok)

\* socket.onclose of the peer p
OnClose(c, p, code) ==
    LET old == c.peers[p]
        c0  == [c EXCEPT !.peers[p].sock = "closed", !.peers[p].pending = <<>>]
    IN  IF old.isConnecting
        THEN OnStatus([c0 EXCEPT !.peers[p] = _onConnectFailed(@)], p, "connectFailed")
        ELSE LET c1 == IF code = CloseAbnormal THEN OnStatus(c0, p, "timeout") ELSE c0
                 c2 == [c1 EXCEPT !.peers[p] = _onDisconnect(@)]
             IN  IF DisconnectStatus(old) = "" THEN c2
                 ELSE OnStatus(c2, p, DisconnectStatus(old))

(***************************************************************************)
(* LoadBalancingClient: one action per call of the application and per     *)
(* socket event.  happy holds while the run is the scenario "connect(),    *)
(* then createRoom() once in the lobby" with every answer a success and no *)
(* connection lost; stateLog is what onStateChange was handed in that run. *)
(***************************************************************************)
\* what the last handler did
LBDid(op, arg, kind, ok, nr, actorList, c) ==
    [op |-> op, arg |-> arg, kind |-> kind, ok |-> ok, nr |-> nr,
     actorList |-> actorList, threw |-> c.threw, check |-> c.check,
     leaves |-> c.leaves, log |-> c.log, errors |-> c.errors,
     observed |-> c.observed, auth |-> c.auth, trace |-> c.trace,
     onError |-> c.onError]

\* closed peers the client no longer refers to deliver nothing more
Retained(c) ==
    [i \in PeerIds |->
        IF c.peers[i].sock = "closed" /\ i \notin {c.masterPeer, c.gamePeer}
        THEN FreePeer ELSE c.peers[i]]

\* the client's fields after a handler
CommitLB(c, did, inScenario) ==
    /\ state' = c.state
    /\ keepMasterConnection' = c.keepMasterConnection
    /\ reconnectPending' = c.reconnectPending
    /\ masterPeer' = c.masterPeer
    /\ gamePeer' = c.gamePeer
    /\ peers' = Retained(c)
    /\ myActorNr' = c.myActorNr
    /\ actors' = c.actors
    /\ userAuth' = c.userAuth
    /\ issued' = c.issued
    /\ disconnectCalled' = CASE did.op = "disconnect" -> TRUE
                              [] did.op = "connect" -> FALSE
                              [] did.op = "leaveRoom" /\ did.log # <<>> -> FALSE
                              [] OTHER -> disconnectCalled
    /\ lbLast' = did
    /\ happy' = (happy /\ inScenario /\ ~c.threw)
    /\ stateLog' = IF happy /\ inScenario /\ ~c.threw THEN stateLog \o c.log ELSE <<>>

Commit(c, did, inScenario) ==
    /\ CommitLB(c, did, inScenario)
    /\ UNCHANGED <<peerVars, roomVars, auxVars>>

Live(p) == peers[p].kind # "free" /\ peers[p].sock \in {"live", "closing"}

\* a call of the application
Call == apiCalls < MaxCalls /\ apiCalls' = apiCalls + 1 /\ UNCHANGED faults
\* a socket event, a failure of the connection or of the operation if isFault
Event(isFault) ==
    /\ isFault => faults < MaxFaults
    /\ faults' = IF isFault THEN faults + 1 ELSE faults
    /\ UNCHANGED apiCalls

LBConnect(keep) ==
    LET c == connect(Client, keep)
    IN  /\ ~c.full /\ Call
        /\ Commit(c, LBDid("connect", "", "", TRUE, 0, {}, c), state = Uninitialized)

\* createRoom, joinRoom and joinRandomRoom send their operation to the master peer
LBCreateRoom ==
    LET c == sendOperationOn(Client, masterPeer, "CreateGame")
    IN  /\ ~c.full /\ Call
        /\ Commit(c, LBDid("createRoom", "", "", TRUE, 0, {}, c),
                  state = JoinedLobby /\ masterPeer # 0 /\ peers[masterPeer].pending = <<>>)

LBJoinRoom ==
    LET c == sendOperationOn(Client, masterPeer, "JoinGame")
    IN  /\ ~c.full /\ Call
        /\ Commit(c, LBDid("joinRoom", "", "", TRUE, 0, {}, c), FALSE)

LBJoinRandomRoom ==
    LET c == sendOperationOn(Client, masterPeer, "JoinRandomGame")
    IN  /\ ~c.full /\ Call
        /\ Commit(c, LBDid("joinRandomRoom", "", "", TRUE, 0, {}, c), FALSE)

LBSetCustomAuthentication(authParameters, authType) ==
    LET c == [Client EXCEPT !.userAuth.type = authType,
                            !.userAuth.parameters = authParameters]
    IN  /\ ~c.full /\ Call
        /\ Commit(c, LBDid("setCustomAuthentication", "", "", TRUE, 0, {}, c), TRUE)

LBDisconnect ==
    LET c == disconnect(Client)
    IN  /\ ~c.full /\ Call
        /\ Commit(c, LBDid("disconnect", "", "", TRUE, 0, {}, c), FALSE)

\* leaveRoom acts in Joined only, which costs the calls that lead there: it is
\* not counted
LBLeaveRoom ==
    LET c == leaveRoom(Client)
    IN  /\ ~c.full /\ UNCHANGED <<apiCalls, faults>>
        /\ Commit(c, LBDid("leaveRoom", "", "", TRUE, 0, {}, c), FALSE)

\* the first message of the socket: the session id
LBSession(p) ==
    LET c == OnStatus([Client EXCEPT !.peers[p] =
                           _onConnect([@ EXCEPT !.sessionid = <<"s">>])], p, "connect")
    IN  /\ Live(p) /\ Falsy(peers[p].sessionid)
        /\ ~c.full /\ Event(FALSE)
        /\ Commit(c, LBDid("status", "connect", peers[p].kind, TRUE, 0, {}, c), TRUE)

\* the server answers the oldest request of the peer
LBResponse(p, ok, nr, actorList) ==
    /\ Live(p) /\ peers[p].pending # <<>>
    /\ LET op   == Head(peers[p].pending)
           data == peers[p].kind = "game" /\ ok /\ op \in {"CreateGame", "JoinGame"}
           c    == OnResponse([Client EXCEPT !.peers[p].pending = Tail(@)],
                              p, op, ok, nr, actorList)
       IN  /\ data \/ nr = 0
           /\ (data /\ op = "JoinGame") \/ actorList = {}
           /\ data => nr # 0
           /\ ~c.full /\ Event(~ok)
           /\ Commit(c, LBDid("response", op, peers[p].kind, ok, nr, actorList, c), ok)

LBJoinEvent(p, nr) ==
    LET c == GameOnJoinEvent(Client, nr)
    IN  /\ Live(p) /\ peers[p].kind = "game" /\ ~Falsy(peers[p].sessionid)
        /\ ~c.full /\ Event(FALSE)
        /\ Commit(c, LBDid("event", "Join", "game", TRUE, nr, {}, c), TRUE)

LBLeaveEvent(p, nr) ==
    LET c == GameOnLeaveEvent(Client, nr)
    IN  /\ Live(p) /\ peers[p].kind = "game" /\ ~Falsy(peers[p].sessionid)
        /\ ~c.full /\ Event(FALSE)
        /\ Commit(c, LBDid("event", "Leave", "game", TRUE, nr, {}, c), TRUE)

LBClose(p, code) ==
    LET c == OnClose(Client, p, code)
    IN  /\ Live(p)
        /\ ~c.full /\ Event(code = CloseAbnormal \/ ~peers[p].isClosing)
        /\ Commit(c, LBDid("close", DisconnectStatus(peers[p]), peers[p].kind, TRUE,
                           0, {}, c),
                  code = CloseNormal /\ DisconnectStatus(peers[p]) = "disconnect")

LBError(p) ==
    LET c == OnStatus([Client EXCEPT !.peers[p] = _onError(@)], p, "error")
    IN  /\ Live(p)
        /\ ~c.full /\ Event(TRUE)
        /\ Commit(c, LBDid("status", "error", peers[p].kind, TRUE, 0, {}, c), FALSE)

(***************************************************************************)
(* The state after construction.                                           *)
(***************************************************************************)
InitPeer ==
    /\ peer = NewPeer
    /\ socket = "none"
    /\ keepAliveTimeoutMs = KeepAliveDefault
    /\ keepAliveTimer = 0
    /\ timers = {}
    /\ listeners = NoListeners
    /\ closeRequested = FALSE
    /\ last = Did("new", "", <<>>, FALSE, <<>>, <<>>)

InitRooms ==
    /\ roomInfos = <<>>
    /\ roomsOut = RoomsDid("new", <<>>, <<>>, <<>>, <<>>)

InitLB ==
    /\ state = Uninitialized
    /\ keepMasterConnection = FALSE
    /\ reconnectPending = FALSE
    /\ masterPeer = 0
    /\ gamePeer = 0
    /\ peers = [i \in PeerIds |-> FreePeer]
    /\ myActorNr = -1
    /\ actors = addActor(<<>>, -1, TRUE)
    /\ lbLast = [op |-> "new", arg |-> "", kind |-> "", ok |-> TRUE, nr |-> 0,
                 actorList |-> {}, threw |-> FALSE, check |-> <<>>, leaves |-> <<>>,
                 log |-> <<>>, errors |-> 0, observed |-> <<>>, auth |-> <<>>,
                 trace |-> <<>>, onError |-> <<>>]
    /\ userAuth = [type |-> AuthNone, parameters |-> <<>>, secret |-> <<>>]
    /\ issued = <<>>
    /\ disconnectCalled = FALSE
    /\ happy = TRUE
    /\ stateLog = <<>>
    /\ apiCalls = 0
    /\ faults = 0

InitLite ==
    /\ lite = [isJoined |-> FALSE, actors |-> {}, myActor |-> 0]
    /\ liteLast = [op |-> "new", arg |-> <<>>, threw |-> FALSE, sent |-> <<>>]

InitCodec ==
    /\ codecIn = <<>>
    /\ codecOut = [done |-> FALSE, encoded |-> <<>>, decoded |-> <<>>]

InitVals ==
    /\ valsIn = <<>>
    /\ valsOut = [done |-> FALSE, threw |-> FALSE, json |-> <<>>, calls |-> <<>>]

InitSample ==
    /\ sampleIn = [userName |-> <<>>, token |-> <<>>]
    /\ sampleOut = [endpoint |-> "none", ResultCode |-> 0, Message |-> ""]

\* the actor table holds the local actor, created with actorNr -1; currentRoom
\* is a new Room
InitProps ==
    /\ propActors = [nr \in {-1} |-> <<>>]
    /\ propRoom = [isOpen |-> <<>>, removed |-> <<>>, custom |-> <<>>]
    /\ propsLast = [op |-> "new", vals |-> <<>>, calls |-> <<>>]

\* no operation called yet
InitParams ==
    /\ paramsIn = [op |-> "none"]
    /\ paramsOut = [done |-> FALSE, threw |-> FALSE, vals |-> <<>>]

InitAux == InitLite /\ InitCodec /\ InitVals /\ InitSample /\ InitProps /\ InitParams

Init == InitPeer /\ InitRooms /\ InitLB /\ InitAux

FrameLists(payloads) == UNION {[1..n -> payloads] : n \in 0..MaxFrames}

(***************************************************************************)
(* SpecPeer: the connection life cycle, sends and the keep-alive timer of  *)
(* one PhotonPeer.                                                         *)
(***************************************************************************)
PeerFrames == {<<>>, << <<"s">> >>, << <<>> >>, << JsonMark \o <<"R1">> >>}

NextPeer ==
    \/ PeerConnect
    \/ PeerDisconnect
    \/ \E data \in DataKinds : PeerSendOperation(data)
    \/ \E v \in KeepAliveValues : PeerSetKeepAliveTimeout(v)
    \/ \E t \in timers : KeepAliveExpire(t)
    \/ SocketOpen
    \/ \E frames \in PeerFrames : SocketMessage(frames)
    \/ \E code \in {CloseNormal, CloseAbnormal} : SocketClose(code)
    \/ SocketError

SpecPeer == Init /\ [][NextPeer]_vars

(***************************************************************************)
(* SpecDispatch: the listener registry of one PhotonPeer and the dispatch  *)
(* of received envelopes.                                                  *)
(***************************************************************************)
DispatchFrames ==
    {<< <<"s">> >>} \cup {<< JsonMark \o <<tok>> >> : tok \in JsonTokens}

NextDispatch ==
    \/ PeerConnect
    \/ SocketOpen
    \/ \E frames \in DispatchFrames : SocketMessage(frames)
    \/ \E ch \in {"event", "response"}, code \in Codes,
          cb \in Callbacks \cup {NotAFunction} : AddListener(ch, code, cb)
    \/ \E ch \in {"event", "response"}, code \in Codes, cb \in Callbacks :
          RemoveListener(ch, code, cb)
    \/ \E ch \in {"event", "response"}, code \in Codes :
          RemoveListenersForCode(ch, code)

SpecDispatch == Init /\ [][NextDispatch]_vars

(***************************************************************************)
(* SpecFrames: socket messages that carry several frames.                  *)
(***************************************************************************)
FramePayloads == {<<"s">>, JsonMark \o <<"R1">>, JsonMark \o <<"E2">>}

NextFrames ==
    \/ PeerConnect
    \/ SocketOpen
    \/ \E frames \in FrameLists(FramePayloads) : SocketMessage(frames)
    \/ \E code \in {CloseNormal} : SocketClose(code)

SpecFrames == Init /\ [][NextFrames]_vars

(***************************************************************************)
(* Claims about the keep-alive timer and sends (SpecPeer).                 *)
(***************************************************************************)

C6_NoSendAfterDisconnect ==
    [][closeRequested =>
          /\ last'.op = "sendOperation" => (last'.threw /\ last'.writes = <<>>)
          /\ last'.op = "keepAlive" => last'.writes = <<>>]_vars

C6_Witness ==
    /\ closeRequested
    /\ last.op = "sendOperation" /\ last.arg = "array" /\ last.threw
    /\ peer.isConnected /\ peer.isClosing

\* C7: a sendOperation on a peer that is not connected (or is closing), or with
\* data that is neither an array nor undefined, throws, writes nothing, leaves the
\* keep-alive timer alone and leaves the connection flags unchanged.
C7_SendRejected ==
    [][(last'.op = "sendOperation" /\ (~CanSend(peer) \/ last'.arg = "other"))
          => /\ last'.threw
             /\ last'.writes = <<>>
             /\ timers' = timers /\ keepAliveTimer' = keepAliveTimer
             /\ peer' = peer]_vars

C7_Witness ==
    /\ last.op = "sendOperation" /\ last.arg = "other" /\ last.threw
    /\ CanSend(peer) /\ timers # {}

(***************************************************************************)
(* Claims about dispatch (SpecDispatch) and framing (SpecFrames).          *)
(***************************************************************************)

\* C8: a received event or response whose code has no listener registered at
\* the moment of dispatch invokes the unhandled hook exactly once with that code;
\* one whose code has a listener invokes listeners and not the hook.
C8_UnhandledHook ==
    (/\ last.op = "message" /\ Len(last.frames) = 1
     /\ StartsWith(last.frames[1], JsonMark)
     /\ Envelope(last.frames[1][4]).kind \in {"res", "evt"})
    => LET env  == Envelope(last.frames[1][4])
           ch   == IF env.kind = "res" THEN "response" ELSE "event"
           hook == IF env.kind = "res" THEN "onUnhandledResponse" ELSE "onUnhandledEvent"
       IN  IF listeners[ch][env.code].list = <<>>
           THEN last.calls = << <<hook, env.code, "">> >>
           ELSE /\ last.calls # <<>>
                /\ \A i \in 1..Len(last.calls) : last.calls[i][1] = ch

\* the frames of one socket message processed one after the other
RECURSIVE ProcessEach(_, _, _)
ProcessEach(p, regs, frames) ==
    IF frames = <<>> THEN [peer |-> p, calls |-> <<>>]
    ELSE LET r    == _onMessage(p, regs, Head(frames))
             rest == ProcessEach(r.peer, regs, Tail(frames))
         IN  [peer |-> rest.peer, calls |-> r.calls \o rest.calls]

\* C9: a socket message carrying several frames leaves the peer, and makes the
\* calls, that processing each frame separately in message order would.
C9_FramesInOrder ==
    [][(last'.op = "message" /\ Len(last'.frames) >= 2)
          => /\ peer' = ProcessEach(peer, listeners, last'.frames).peer
             /\ last'.calls = ProcessEach(peer, listeners, last'.frames).calls]_vars

(***************************************************************************)
(* The room list (SpecRooms).                                              *)
(***************************************************************************)
GameLists ==
    {gl \in UNION {[1..n -> [name : RoomNames, props : RoomProps]] : n \in 0..MaxBatch} :
         \A i, j \in 1..Len(gl) : gl[i].name = gl[j].name => i = j}

NextRooms ==
    \/ \E gl \in GameLists : EvGameList(gl)
    \/ \E gl \in GameLists : EvGameListUpdate(gl)

SpecRooms == Init /\ [][NextRooms]_vars

\* C4: an entry of an incremental update whose removed flag is set and whose
\* name is not in the room list is handed to onRoomListUpdate in none of the
\* added, updated and removed partitions and is not in the resulting list.
C4_RemovedUnknownNotReported ==
    [][roomsOut'.op = "onRoomListUpdate"
          => \A i \in 1..Len(roomsOut'.gameList) :
                LET g == roomsOut'.gameList[i]
                IN  (/\ "removed" \in DOMAIN g.props /\ g.props.removed
                     /\ g.name \notin NamesOf(roomInfos))
                    => /\ g.name \notin NamesOf(roomsOut'.roomsAdded)
                       /\ g.name \notin NamesOf(roomsOut'.roomsUpdated)
                       /\ g.name \notin NamesOf(roomsOut'.roomsRemoved)
                       /\ g.name \notin NamesOf(roomInfos')]_vars

(***************************************************************************)
(* The load-balancing workflow (SpecLB).                                   *)
(***************************************************************************)
NextLB ==
    \/ \E keep \in BOOLEAN : LBConnect(keep)
    \/ LBCreateRoom
    \/ LBJoinRoom
    \/ LBJoinRandomRoom
    \/ LBDisconnect
    \/ LBLeaveRoom
    \/ \E p \in PeerIds : LBSession(p)
    \/ \E p \in PeerIds, ok \in BOOLEAN, nr \in {0} \cup ActorNrs,
          actorList \in SUBSET ActorNrs : LBResponse(p, ok, nr, actorList)
    \/ \E p \in PeerIds, nr \in ActorNrs : LBJoinEvent(p, nr)
    \/ \E p \in PeerIds, nr \in ActorNrs : LBLeaveEvent(p, nr)
    \/ \E p \in PeerIds, code \in {CloseNormal, CloseAbnormal} : LBClose(p, code)
    \/ \E p \in PeerIds : LBError(p)

SpecLB == Init /\ [][NextLB]_vars

(***************************************************************************)
(* SpecAuth: the client with setCustomAuthentication among its calls.      *)
(***************************************************************************)
NextAuth ==
    \/ \E authParameters \in AuthParameters, authType \in AuthTypes :
          LBSetCustomAuthentication(authParameters, authType)
    \/ \E keep \in BOOLEAN : LBConnect(keep)
    \/ LBCreateRoom
    \/ LBJoinRoom
    \/ LBJoinRandomRoom
    \/ LBDisconnect
    \/ LBLeaveRoom
    \/ \E p \in PeerIds : LBSession(p)
    \/ \E p \in PeerIds, ok \in BOOLEAN, nr \in {0} \cup ActorNrs,
          actorList \in SUBSET ActorNrs : LBResponse(p, ok, nr, actorList)
    \/ \E p \in PeerIds, nr \in ActorNrs : LBJoinEvent(p, nr)
    \/ \E p \in PeerIds, nr \in ActorNrs : LBLeaveEvent(p, nr)
    \/ \E p \in PeerIds, code \in {CloseNormal, CloseAbnormal} : LBClose(p, code)
    \/ \E p \in PeerIds : LBError(p)

SpecAuth == Init /\ [][NextAuth]_vars

\* C1: a checkNextState made in state s for a state the transition table does
\* not list for s throws, and the workflow state is still s after the handler.
C1_InvalidTransitionThrows ==
    (/\ lbLast.check # <<>>
     /\ lbLast.check[2] \notin validNextState(lbLast.check[1]))
    => (lbLast.threw /\ state = lbLast.check[1])

C1_Witness ==
    /\ lbLast.op = "response" /\ lbLast.kind = "master" /\ lbLast.threw
    /\ lbLast.check = <<ConnectingToGameserver, ConnectingToGameserver>>
    /\ state = ConnectingToGameserver

ScenarioStates ==
    <<ConnectingToMasterserver, ConnectedToMaster, JoinedLobby, ConnectingToGameserver,
      ConnectedToGameserver, Joined>>

\* C2: while the run is connect() followed by createRoom() in the lobby, with
\* every answer a success and no connection lost, onStateChange is handed the
\* states ConnectingToMasterserver .. Joined in that order; when Joined is reached
\* the local actor has the number of the game server's answer and the actor table
\* holds the local actor only.
C2_CreateRoomScenario ==
    happy =>
        /\ Len(stateLog) <= Len(ScenarioStates)
        /\ stateLog = SubSeq(ScenarioStates, 1, Len(stateLog))
        /\ stateLog # <<>> => state = stateLog[Len(stateLog)]
        /\ (state = Joined /\ lbLast.op = "response")
               => /\ stateLog = ScenarioStates
                  /\ myActorNr = lbLast.nr /\ lbLast.nr \in ActorNrs
                  /\ actors = addActor(<<>>, myActorNr, TRUE)

C2_Witness ==
    /\ happy /\ state = Joined /\ stateLog = ScenarioStates
    /\ lbLast.op = "response" /\ lbLast.arg = "CreateGame" /\ lbLast.kind = "game"

\* C3: after a successful CreateGame or JoinGame response on the game peer the
\* actor table is the local actor under the number the response assigns, plus
\* one remote entry for each other actor the response lists.
C3_ActorTableAfterJoin ==
    (/\ lbLast.op = "response" /\ lbLast.kind = "game" /\ lbLast.ok
     /\ lbLast.arg \in {"CreateGame", "JoinGame"})
    => /\ myActorNr = lbLast.nr /\ myActorNr >= 0
       /\ actors = [k \in {myActorNr} \cup lbLast.actorList |-> k = myActorNr]

\* C10: a disconnect status of a game peer while the master peer is connected
\* makes the state JoinedLobby, leaves the local actor alone in the table and
\* hands every actor that was in the table to onActorLeave once.
C10_GameDisconnectToLobby ==
    [][(/\ lbLast'.op = "close" /\ lbLast'.arg = "disconnect" /\ lbLast'.kind = "game"
        /\ masterPeer # 0 /\ peers[masterPeer].isConnected)
          => /\ state' = JoinedLobby
             /\ actors' = addActor(<<>>, myActorNr, TRUE)
             /\ Len(lbLast'.leaves) = Cardinality(DOMAIN actors)
             /\ {lbLast'.leaves[i] : i \in 1..Len(lbLast'.leaves)} = DOMAIN actors]_vars

C10_Witness ==
    /\ lbLast.op = "close" /\ lbLast.arg = "disconnect" /\ lbLast.kind = "game"
    /\ Len(lbLast.leaves) = 2 /\ state = JoinedLobby
    /\ masterPeer # 0 /\ peers[masterPeer].isConnected /\ ~peers[masterPeer].isClosing

\* C11: a disconnect status of a game peer while the master peer is not
\* connected hands Disconnected to onStateChange; if reconnectPending is set the
\* listener then calls connect(), which does not throw and leaves the state
\* ConnectingToMasterserver with a new master peer; if it is not set no connect is
\* made and the state stays Disconnected.
C11_GameDisconnectReconnect ==
    [][(/\ lbLast'.op = "close" /\ lbLast'.arg = "disconnect" /\ lbLast'.kind = "game"
        /\ ~(masterPeer # 0 /\ peers[masterPeer].isConnected))
          => /\ \E i \in 1..Len(lbLast'.log) : lbLast'.log[i] = Disconnected
             /\ ~lbLast'.threw
             /\ IF reconnectPending
                THEN /\ lbLast'.check = <<Disconnected, ConnectingToMasterserver>>
                     /\ state' = ConnectingToMasterserver
                     /\ lbLast'.log[Len(lbLast'.log)] = ConnectingToMasterserver
                     /\ masterPeer' # 0 /\ peers'[masterPeer'].isConnecting
                     /\ ~reconnectPending'
                ELSE /\ lbLast'.check = <<>>
                     /\ state' = Disconnected
                     /\ masterPeer' = masterPeer]_vars

C11_Witness ==
    /\ lbLast.op = "close" /\ lbLast.arg = "disconnect" /\ lbLast.kind = "game"
    /\ lbLast.check = <<Disconnected, ConnectingToMasterserver>>
    /\ state = ConnectingToMasterserver /\ Len(lbLast.leaves) = 2

FailureStatuses == {"connectFailed", "timeout", "connectClosed", "error"}

\* C12: in every state, a connectFailed, timeout, connectClosed or error status
\* dispatched on any master or game peer sets the state to Error, calls onError
\* once and throws nothing; a socket error, and a close the client did not ask
\* for, leave the state Error.
C12_FailureStatusEscalates ==
    /\ \A p \in PeerIds, code \in FailureStatuses :
          peers[p].kind # "free"
          => LET c == OnStatus(Client, p, code)
             IN  c.state = Error /\ c.errors = 1 /\ c.log = <<Error>> /\ ~c.threw
    /\ (lbLast.op = "status" /\ lbLast.arg = "error")
          => (state = Error /\ lbLast.errors = 1)
    /\ (lbLast.op = "close" /\ lbLast.arg = "connectClosed")
          => (state = Error /\ lbLast.errors >= 1)

C12_Witness ==
    /\ lbLast.op = "close" /\ lbLast.arg = "connectClosed" /\ lbLast.kind = "game"
    /\ lbLast.log = <<Error, Error>> /\ lbLast.errors = 2 /\ state = Error

(***************************************************************************)
(* SpecLite: one LitePeer, a PhotonPeer with the room operations of the    *)
(* Lite application.  photonId 0 stands for the null of a new _myActor.    *)
(***************************************************************************)
LiteOpJoin       == 255
LiteOpLeave      == 254
LiteOpRaiseEvent == 253
\* error codes of a refused operation (response.err other than 0)
ErrorCodes == {-3, 32758}

LiteDid(op, arg, r, code) ==
    [op |-> op, arg |-> arg, threw |-> r.threw,
     sent |-> IF r.writes = <<>> THEN <<>> ELSE <<code>>]

\* an operation refused before sendOperation is reached
LiteRefused(op, arg) == [op |-> op, arg |-> arg, threw |-> TRUE, sent |-> <<>>]

\* what a LitePeer operation leaves behind after it called sendOperation
LiteSent(op, arg, r, code) ==
    /\ timers' = r.keepAlive.timers
    /\ keepAliveTimer' = r.keepAlive.timer
    /\ liteLast' = LiteDid(op, arg, r, code)

\* LitePeer.join(roomName, ...)
LiteJoin(roomName) ==
    /\ IF roomName # Undefined /\ peer.isConnected /\ ~lite.isJoined
       THEN LiteSent("join", roomName,
                     sendOperation(peer, "array", timers, keepAliveTimer, keepAliveTimeoutMs),
                     LiteOpJoin)
       ELSE /\ liteLast' = LiteRefused("join", roomName)
            /\ UNCHANGED <<timers, keepAliveTimer>>
    /\ UNCHANGED <<roomVars, lbVars, exceptLite, lite, peer, socket, keepAliveTimeoutMs, listeners,
                   closeRequested, last>>

\* LitePeer.leave()
LiteLeave ==
    /\ IF lite.isJoined
       THEN LiteSent("leave", <<>>,
                     sendOperation(peer, "undefined", timers, keepAliveTimer,
                                   keepAliveTimeoutMs),
                     LiteOpLeave)
       ELSE /\ liteLast' = LiteRefused("leave", <<>>)
            /\ UNCHANGED <<timers, keepAliveTimer>>
    /\ UNCHANGED <<roomVars, lbVars, exceptLite, lite, peer, socket, keepAliveTimeoutMs, listeners,
                   closeRequested, last>>

\* LitePeer.raiseEvent(eventCode, data)
LiteRaiseEvent(data) ==
    /\ IF lite.isJoined /\ data # Undefined
       THEN LiteSent("raiseEvent", data,
                     sendOperation(peer, "array", timers, keepAliveTimer, keepAliveTimeoutMs),
                     LiteOpRaiseEvent)
       ELSE /\ liteLast' = LiteRefused("raiseEvent", data)
            /\ UNCHANGED <<timers, keepAliveTimer>>
    /\ UNCHANGED <<roomVars, lbVars, exceptLite, lite, peer, socket, keepAliveTimeoutMs, listeners,
                   closeRequested, last>>

\* LitePeer._onResponseJoin
_onResponseJoin(l, actorNr) ==
    [isJoined |-> TRUE, actors |-> l.actors \cup {actorNr}, myActor |-> actorNr]

\* LitePeer._onResponseLeave
_onResponseLeave(l, actorNr) ==
    [l EXCEPT !.isJoined = FALSE, !.actors = @ \ {l.myActor}]

\* LitePeer.actorNrFromVals: the ActorNr of the response, -1 if it carries none
actorNrFromVals(vals) == IF vals = <<>> THEN -1 ELSE vals[1]

\* the response code and whether response.err is zero, as liteLast keeps them
ResponseArg(code, err) ==
    <<IF code = LiteOpJoin THEN "join" ELSE "leave", IF err = 0 THEN "ok" ELSE "error">>

\* LitePeer._parseResponse for a Join or Leave response read from the socket,
\* with error code err and the ActorNr (if any) in vals; the server answers
\* operations, which only a connected peer has sent
LiteResponse(code, err, vals) ==
    /\ socket \in {"open", "closing"}
    /\ peer.isConnected
    /\ lite' = IF code = LiteOpJoin THEN _onResponseJoin(lite, actorNrFromVals(vals))
               ELSE _onResponseLeave(lite, actorNrFromVals(vals))
    /\ liteLast' = [op |-> "response", arg |-> ResponseArg(code, err), threw |-> FALSE,
                    sent |-> <<>>]
    /\ UNCHANGED <<peerVars, roomVars, lbVars, exceptLite>>

NextLite ==
    \/ PeerConnect
    \/ PeerDisconnect
    \/ SocketOpen
    \/ SocketMessage(<< <<"s">> >>)
    \/ \E code \in {CloseNormal, CloseAbnormal} : SocketClose(code)
    \/ \E roomName \in {<<"A">>, Undefined} : LiteJoin(roomName)
    \/ LiteLeave
    \/ \E data \in {<<"A">>, Undefined} : LiteRaiseEvent(data)
    \/ \E code \in {LiteOpJoin, LiteOpLeave}, actorNr \in ActorNrs :
          LiteResponse(code, 0, <<actorNr>>)
    \/ \E code \in {LiteOpJoin, LiteOpLeave}, err \in ErrorCodes : LiteResponse(code, err, <<>>)

SpecLite == Init /\ [][NextLite]_vars

\* the conditions under which the operation op is said to fail; a peer that
\* is closing counts as not connected
LiteFails(op, arg) ==
    CASE op = "join"  -> ~CanSend(peer) \/ lite.isJoined \/ arg = Undefined
      [] op = "leave" -> ~lite.isJoined
      [] OTHER        -> ~lite.isJoined \/ arg = Undefined

LiteCode(op) ==
    CASE op = "join" -> LiteOpJoin [] op = "leave" -> LiteOpLeave [] OTHER -> LiteOpRaiseEvent

\* C13: join, leave and raiseEvent throw and send nothing exactly under their
\* stated failure conditions, leaving isJoined and the actor table alone; in
\* every other case they send one operation with their own code.
C13_LiteOperations ==
    [][liteLast'.op \in {"join", "leave", "raiseEvent"}
         => IF LiteFails(liteLast'.op, liteLast'.arg)
            THEN liteLast'.threw /\ liteLast'.sent = <<>> /\ lite' = lite
            ELSE ~liteLast'.threw /\ liteLast'.sent = <<LiteCode(liteLast'.op)>>]_vars

\* the Authenticate operations the last handler sent on a game peer
GameAuthenticates == {i \in 1..Len(lbLast.auth) : lbLast.auth[i].kind = "game"}

\* C14 as stated: every Authenticate sent on a game peer carries the Secret of
\* the last successful master Authenticate response and not the
\* authentication parameters, whatever the authentication type is.
C14_GameAuthCarriesSecret ==
    \A i \in GameAuthenticates :
        /\ "Secret" \in lbLast.auth[i].keys
        /\ lbLast.auth[i].secret = issued /\ issued # <<>>
        /\ "ClientAuthenticationParams" \notin lbLast.auth[i].keys

\* C14 amended: an Authenticate sent on a game peer never carries the
\* authentication parameters; with an authentication type other than None it
\* carries the type and the Secret of the last successful master Authenticate
\* response, with None it carries the application id and version only.
C14_GameAuthSecretUnlessNone ==
    \A i \in GameAuthenticates :
        /\ "ClientAuthenticationParams" \notin lbLast.auth[i].keys
        /\ IF userAuth.type # AuthNone
           THEN /\ lbLast.auth[i].keys = {"ApplicationId", "AppVersion",
                                          "ClientAuthenticationType", "Secret"}
                /\ lbLast.auth[i].type = userAuth.type
                /\ lbLast.auth[i].secret = issued /\ issued # <<>>
           ELSE lbLast.auth[i].keys = {"ApplicationId", "AppVersion"}

C14_Witness ==
    /\ GameAuthenticates # {}
    /\ userAuth.type = AuthCustom /\ userAuth.parameters \in AuthParameters
    /\ \A i \in GameAuthenticates : lbLast.auth[i].secret = issued /\ issued # <<>>

MaxMessages == 2       \* messages in one encoded sequence
MaxMsgLen   == 2       \* characters of a message drawn from CodecAlphabet

CodecAlphabet == {"1", "~", "m", NUL}

Strings(alphabet, n) == UNION {[1..k -> alphabet] : k \in 0..n}

\* all short messages, and longer ones: the frame marker, an encoded frame, and
\* a message whose length takes two digits
CodecMessages ==
    Strings(CodecAlphabet, MaxMsgLen)
    \cup {Frame, <<"1">> \o Frame \o <<"1">>, _encode(<< <<"1">> >>),
          [i \in 1..10 |-> "m"]}

CodecInputs == UNION {[1..n -> CodecMessages] : n \in 0..MaxMessages}

InitCodecInputs ==
    /\ InitPeer /\ InitRooms /\ InitLB /\ InitLite /\ InitVals /\ InitSample /\ InitProps /\ InitParams
    /\ codecIn \in CodecInputs
    /\ codecOut = [done |-> FALSE, encoded |-> <<>>, decoded |-> <<>>]

CodecRoundTrip ==
    /\ ~codecOut.done
    /\ codecOut' = [done |-> TRUE, encoded |-> _encode(codecIn),
                    decoded |-> _decode(_encode(codecIn))]
    /\ UNCHANGED <<peerVars, roomVars, lbVars, exceptCodec, codecIn>>

NextCodec == CodecRoundTrip

SpecCodec == InitCodecInputs /\ [][NextCodec]_vars

HasNUL(m) == \E i \in 1..Len(m) : m[i] = NUL

\* C16 as stated: for every sequence of string messages, decoding the encoding
\* gives the sequence back.
C16_RoundTrip == codecOut.done => codecOut.decoded = codecIn

\* C16 amended: for every sequence of string messages that hold no NUL
\* character, decoding the encoding gives the sequence back.
C16_RoundTripWithoutNUL ==
    (codecOut.done /\ \A i \in 1..Len(codecIn) : ~HasNUL(codecIn[i]))
        => codecOut.decoded = codecIn

C16_Witness ==
    /\ codecOut.done
    /\ codecIn = << <<>>, <<"1">> \o Frame \o <<"1">> >>
    /\ codecOut.decoded = codecIn

(***************************************************************************)
(* SpecVals: a response whose vals array is turned into an object before   *)
(* the response is dispatched.  An element of the array is a number or a   *)
(* string, written [t, v] with v its digits or characters; an object is    *)
(* the sequence of its <<property name, value>> entries.                   *)
(***************************************************************************)
MaxVals == 4           \* elements of a vals array

ValsElements ==
    {[t |-> "num", v |-> "1"], [t |-> "num", v |-> "2"], [t |-> "str", v |-> "1"],
     [t |-> "str", v |-> "x"]}

ValsArrays == UNION {[1..n -> ValsElements] : n \in 0..MaxVals}

\* key = toParse.shift() + ""
KeyToString(e) == [t |-> "str", v |-> e.v]

\* parsedJSON[key] = value
SetProperty(json, key, value) ==
    IF \E i \in 1..Len(json) : json[i][1] = key
    THEN [i \in 1..Len(json) |-> IF json[i][1] = key THEN <<key, value>> ELSE json[i]]
    ELSE Append(json, <<key, value>>)

\* the while loop of _parseMessageValuesArrayToJSON
RECURSIVE ParseVals(_, _)
ParseVals(toParse, parsedJSON) ==
    IF Len(toParse) = 0 THEN parsedJSON
    ELSE ParseVals(Tail(Tail(toParse)),
                   SetProperty(parsedJSON, KeyToString(toParse[1]), toParse[2]))

\* a parser that drops the last element of an array of odd length
_parseMessageValuesArrayToJSON_DropsOdd(vals) ==
    [threw |-> FALSE,
     json |-> ParseVals(SubSeq(vals, 1, Len(vals) - (Len(vals) % 2)), <<>>)]

_parseMessageValuesArrayToJSON(vals) ==
    IF Len(vals) % 2 = 0
    THEN [threw |-> FALSE, json |-> ParseVals(vals, <<>>)]
    ELSE [threw |-> TRUE, json |-> <<>>]

\* PhotonPeer._onMessageReceived for a parsed envelope with its vals array
_onMessageReceivedVals(regs, env, vals) ==
    LET parsed == IF Len(vals) > 0 THEN _parseMessageValuesArrayToJSON(vals)
                  ELSE [threw |-> FALSE, json |-> <<>>]
        r      == _onMessageReceived(regs, env)
    IN  IF parsed.threw THEN [threw |-> TRUE, json |-> <<>>, calls |-> <<>>]
        ELSE [threw |-> r.threw, json |-> parsed.json, calls |-> r.calls]

InitValsInputs ==
    /\ InitPeer /\ InitRooms /\ InitLB /\ InitLite /\ InitCodec /\ InitSample /\ InitProps /\ InitParams
    /\ valsIn \in ValsArrays
    /\ valsOut = [done |-> FALSE, threw |-> FALSE, json |-> <<>>, calls |-> <<>>]

\* a response with code 1 and the vals array valsIn is received
ValsReceive ==
    LET r == _onMessageReceivedVals(listeners, [kind |-> "res", code |-> "1"], valsIn)
    IN  /\ ~valsOut.done
        /\ valsOut' = [done |-> TRUE, threw |-> r.threw, json |-> r.json, calls |-> r.calls]
        /\ UNCHANGED <<peerVars, roomVars, lbVars, exceptVals, valsIn>>

\* addResponseListener(1, cb) before the response arrives
ValsAddListener(cb) ==
    /\ ~valsOut.done
    /\ AddListener("response", "1", cb)

NextVals ==
    \/ \E cb \in Callbacks : ValsAddListener(cb)
    \/ ValsReceive

SpecVals == InitValsInputs /\ [][NextVals]_vars

\* the <<key, value>> pairs of a flat array of even length
Pairs(vals) == {<<vals[2 * i - 1], vals[2 * i]>> : i \in 1..(Len(vals) \div 2)}
\* the object written as a flat array again
RECURSIVE Flatten(_)
Flatten(json) ==
    IF json = <<>> THEN <<>> ELSE <<json[1][1], json[1][2]>> \o Flatten(Tail(json))

KeysOf(vals) == [i \in 1..(Len(vals) \div 2) |-> vals[2 * i - 1]]
Unique(keys) == \A i, j \in 1..Len(keys) : keys[i] = keys[j] => i = j
StringKeys(vals) == [i \in 1..Len(KeysOf(vals)) |-> KeyToString(KeysOf(vals)[i])]

ValsOdd == Len(valsIn) % 2 = 1

\* what holds of an array of odd length: an error, and no listener called
OddRejected == valsOut.threw /\ valsOut.calls = <<>>

\* C17 as stated: an array of even length whose keys are unique gives one entry
\* per pair, and flattening the object gives the same pairs back; an array of odd
\* length raises an error and no listener is called.
C17_ValsBijection ==
    valsOut.done
        => IF ValsOdd THEN OddRejected
           ELSE Unique(KeysOf(valsIn))
                    => /\ ~valsOut.threw
                       /\ Len(valsOut.json) = Len(valsIn) \div 2
                       /\ Pairs(Flatten(valsOut.json)) = Pairs(valsIn)

\* C17 amended: an array of even length whose keys are unique once converted to
\* strings gives one entry per pair, under the string of its key, and the
\* response listeners are called; an array of odd length raises an error and no
\* listener is called.
C17_ValsByPropertyName ==
    valsOut.done
        => IF ValsOdd THEN OddRejected
           ELSE /\ ~valsOut.threw
                /\ valsOut.calls = _dispatchResponse(listeners, "1")
                /\ Unique(StringKeys(valsIn))
                     => /\ Len(valsOut.json) = Len(valsIn) \div 2
                        /\ Pairs(Flatten(valsOut.json))
                             = {<<KeyToString(pr[1]), pr[2]>> : pr \in Pairs(valsIn)}

\* an array of odd length met a registered listener, which was not called
C17_Witness ==
    /\ valsOut.done /\ Len(valsIn) = 3 /\ OddRejected
    /\ _dispatchResponse(listeners, "1") # <<>>

(***************************************************************************)
(* SpecRegistry: listeners of the three channels of one PhotonPeer, and    *)
(* the dispatch of statuses, events and responses.                         *)
(***************************************************************************)
RegistryCodes(ch) == IF ch = "status" THEN {"connecting"} ELSE Codes

NextRegistry ==
    \/ PeerConnect
    \/ SocketOpen
    \/ \E frames \in DispatchFrames : SocketMessage(frames)
    \/ \E ch \in Channels : \E code \in RegistryCodes(ch), cb \in Callbacks :
          AddListener(ch, code, cb)
    \/ \E ch \in Channels : \E code \in RegistryCodes(ch), cb \in Callbacks :
          RemoveListener(ch, code, cb)
    \/ \E ch \in Channels : \E code \in RegistryCodes(ch) : RemoveListenersForCode(ch, code)

SpecRegistry == Init /\ [][NextRegistry]_vars

\* what a dispatch of code on the channel ch calls
Dispatched(regs, ch, code) ==
    CASE ch = "status" -> _dispatchPeerStatus(regs, code)
      [] ch = "event"  -> _dispatchEvent(regs, code)
      [] OTHER         -> _dispatchResponse(regs, code)

\* the registrations of code on the channel ch, as calls in the order held
InOrder(regs, ch, code) ==
    [i \in 1..Len(regs[ch][code].list) |-> <<ch, code, regs[ch][code].list[i]>>]

\* every other channel and code dispatches after the step what it did before
OthersKeep(ch, code) ==
    \A ch2 \in Channels : \A code2 \in ChannelCodes(ch2) :
        <<ch2, code2>> # <<ch, code>>
            => Dispatched(listeners', ch2, code2) = Dispatched(listeners, ch2, code2)

\* C18: a dispatch calls the registrations of its channel and code in the order
\* held, one call per registration; an addition puts one registration after
\* those held for its channel and code, a removal keeps the order of those it
\* leaves, and neither changes what another channel or code dispatches.
C18_DispatchInAdditionOrder ==
    [][/\ (last'.op = "message" /\ last'.frames \in DispatchFrames /\ ~last'.threw
             /\ StartsWith(last'.frames[1], JsonMark))
          => LET env == Envelope(last'.frames[1][4])
                 ch  == IF env.kind = "res" THEN "response" ELSE "event"
             IN  (env.kind \in {"res", "evt"} /\ listeners[ch][env.code].has)
                     => last'.calls = InOrder(listeners, ch, env.code)
       /\ last'.op = "connect"
          => last'.calls = InOrder(listeners, "status", "connecting")
       /\ last'.op = "addListener"
          => \E ch \in Channels : \E code \in ChannelCodes(ch) : \E cb \in Callbacks :
                /\ listeners'[ch][code].list = Append(listeners[ch][code].list, cb)
                /\ OthersKeep(ch, code)
       /\ last'.op \in {"removeListener", "removeListenersForCode"}
          => \E ch \in Channels : \E code \in ChannelCodes(ch) :
                /\ \E keep \in SUBSET Callbacks :
                      listeners'[ch][code].list
                          = SelectSeq(listeners[ch][code].list, LAMBDA x : x \in keep)
                /\ OthersKeep(ch, code)]_vars

\* a callback added twice for a response code was called twice
C18_Witness ==
    /\ last.op = "message" /\ listeners["response"]["1"].list = <<"f", "f">>
    /\ last.calls = << <<"response", "1", "f">>, <<"response", "1", "f">> >>

(***************************************************************************)
(* SpecSample: the Authenticate endpoints of the sample web applications.  *)
(* A string is a sequence of characters; Null is the null reference.       *)
(***************************************************************************)
MaxNameLen == 2        \* characters of userName and of token

Null == <<"null">>
NameAlphabet == {" ", "a", "b"}
Names == Strings(NameAlphabet, MaxNameLen) \cup {Null}

\* string.IsNullOrWhiteSpace
IsNullOrWhiteSpace(str) == str = Null \/ \A i \in 1..Len(str) : str[i] = " "

\* ClientAuthenticationService.Authenticate
ServiceAuthenticate(userName, token) == userName = token

\* ClientController.Authenticate of the Web API and MVC samples
Authenticate(userName, token) ==
    IF IsNullOrWhiteSpace(userName) \/ IsNullOrWhiteSpace(token)
    THEN [ResultCode |-> 3, Message |-> "Parameter invalid"]
    ELSE IF ServiceAuthenticate(userName, token)
         THEN [ResultCode |-> 1, Message |-> ""]
         ELSE [ResultCode |-> 2, Message |-> ""]

\* ClientController.Authenticate of the AsyncController variant
AuthenticateAsync(userName, token) ==
    IF IsNullOrWhiteSpace(userName) \/ IsNullOrWhiteSpace(token)
    THEN [ResultCode |-> 2, Message |-> "Parameter invalid"]
    ELSE IF ServiceAuthenticate(userName, token)
         THEN [ResultCode |-> 1, Message |-> ""]
         ELSE [ResultCode |-> 2, Message |-> ""]

InitSampleInputs ==
    /\ InitPeer /\ InitRooms /\ InitLB /\ InitLite /\ InitCodec /\ InitVals /\ InitProps /\ InitParams
    /\ sampleIn \in [userName : Names, token : Names]
    /\ sampleOut = [endpoint |-> "none", ResultCode |-> 0, Message |-> ""]

Returned(endpoint, result) ==
    /\ sampleOut' = [endpoint |-> endpoint, ResultCode |-> result.ResultCode,
                     Message |-> result.Message]
    /\ UNCHANGED <<peerVars, roomVars, lbVars, exceptSample, sampleIn>>

\* one request is answered by one endpoint
WebApiAuthenticate ==
    /\ sampleOut.endpoint = "none"
    /\ Returned("WebAPI", Authenticate(sampleIn.userName, sampleIn.token))

MvcAuthenticate ==
    /\ sampleOut.endpoint = "none"
    /\ Returned("MVC", Authenticate(sampleIn.userName, sampleIn.token))

AsyncAuthenticate ==
    /\ sampleOut.endpoint = "none"
    /\ Returned("Async", AuthenticateAsync(sampleIn.userName, sampleIn.token))

NextSample ==
    \/ WebApiAuthenticate
    \/ MvcAuthenticate
    \/ AsyncAuthenticate

SpecSample == InitSampleInputs /\ [][NextSample]_vars

\* C19: every endpoint returns 3 when userName or token is null, empty or
\* blank, 1 when both are not and are equal, 2 otherwise: always 1, 2 or 3.
C19_ResultCodes ==
    sampleOut.endpoint # "none"
        => /\ sampleOut.ResultCode \in {1, 2, 3}
           /\ sampleOut.ResultCode =
                 IF IsNullOrWhiteSpace(sampleIn.userName)
                    \/ IsNullOrWhiteSpace(sampleIn.token) THEN 3
                 ELSE IF sampleIn.userName = sampleIn.token THEN 1 ELSE 2

\* the state the i-th onStateChange of the last handler found
StateBefore(i) == IF i = 1 THEN state ELSE lbLast'.log[i - 1]

\* C20: the state becomes ConnectedToMaster only from ConnectingToMasterserver,
\* JoinedLobby on a JoinLobby success only from ConnectedToMaster,
\* ConnectedToGameserver only from ConnectingToGameserver and Joined only from
\* ConnectedToGameserver.
C20_ResponsesFollowTable ==
    [][\A i \in 1..Len(lbLast'.log) :
          /\ lbLast'.log[i] = ConnectedToMaster
                => StateBefore(i) = ConnectingToMasterserver
          /\ (lbLast'.log[i] = JoinedLobby /\ lbLast'.op = "response")
                => StateBefore(i) = ConnectedToMaster
          /\ lbLast'.log[i] = ConnectedToGameserver
                => StateBefore(i) = ConnectingToGameserver
          /\ lbLast'.log[i] = Joined
                => StateBefore(i) = ConnectedToGameserver]_vars

(***************************************************************************)
(* SpecLBLive: the workflow with the sockets' scheduling.  A socket the     *)
(* client has asked to close does close: its onclose fires.                *)
(***************************************************************************)
\* the onclose of a socket that PhotonPeer.disconnect has closed
LBClosingCloses == \E p \in PeerIds : peers[p].isClosing /\ LBClose(p, CloseNormal)

SpecLBLive == Init /\ [][NextLB]_vars /\ WF_vars(LBClosingCloses)

\* C21: after disconnect() in a state other than Uninitialized the state
\* eventually is Disconnected or Error, the states that accept connect(), once
\* the sockets have closed: it does not stay Disconnecting.
C21_DisconnectCompletes ==
    (lbLast.op = "disconnect" /\ state = Disconnecting)
        ~> (state \in {Disconnected, Error})

\* Disconnecting with no socket left is where the client stays: no call of
\* the application and no event changes the state from there.
C21_NoSocketLeft == state = Disconnecting /\ \A p \in PeerIds : ~Live(p)

C21_DisconnectingStays == [][C21_NoSocketLeft => state' = Disconnecting]_vars

\* C22: between two handlers, the state is JoinedLobby only while the master
\* peer is connected and not closing.
C22_LobbyHasMaster ==
    state = JoinedLobby
        => /\ masterPeer # 0
           /\ peers[masterPeer].isConnected /\ ~peers[masterPeer].isClosing

\* LoadBalancingClient.raiseEvent: GamePeer.raiseEvent sends RaiseEvent on the
\* game peer when the client is joined
raiseEvent(c) ==
    IF c.state = Joined THEN sendOperationOn(c, c.gamePeer, "RaiseEvent") ELSE c

\* C23: between two handlers, the state is Joined only while the game peer is
\* connected and not closing, so that a raiseEvent made in Joined does not throw;
\* a CreateGame or JoinGame response after disconnect() does not make the state
\* Joined.
C23_JoinedHasGamePeer ==
    state = Joined
        => /\ gamePeer # 0
           /\ peers[gamePeer].isConnected /\ ~peers[gamePeer].isClosing
           /\ ~raiseEvent(Client).threw

\* a handler that called connect() and opened a connection to the master
OpensMaster(did) == \E i \in 1..Len(did.log) : did.log[i] = ConnectingToMasterserver

\* C24: after disconnect(), and until the application calls connect() or leaves a
\* room again, no socket event makes the client connect to the master: a
\* reconnectPending left by an earlier leaveRoom() does not reconnect.
C24_NoReconnectAfterDisconnect ==
    [][(disconnectCalled /\ lbLast'.op \in {"close", "status", "response", "event"})
          => ~OpensMaster(lbLast')]_vars

\* the positions of a call in the calls the last handler made on its peers
TraceAt(did, call) == {i \in 1..Len(did.trace) : did.trace[i] = call}

\* a successful CreateGame, JoinGame or JoinRandomGame response of the master:
\* the handoff to the game server
Handoff(did) ==
    /\ did.op = "response" /\ did.kind = "master" /\ did.ok
    /\ did.arg \in {"CreateGame", "JoinGame", "JoinRandomGame"}

\* C25: in a handoff with keepMasterConnection false the master peer's
\* disconnect is called only after the game peer's connect; with
\* keepMasterConnection true the handoff does not call it; a handoff that
\* checkNextState rejects leaves the client's master peer as it was.
C25_HandoffOrder ==
    [][Handoff(lbLast')
          => /\ \A i \in TraceAt(lbLast', <<"master", "disconnect">>) :
                   /\ ~keepMasterConnection
                   /\ \E j \in TraceAt(lbLast', <<"game", "connect">>) : j < i
             /\ lbLast'.threw
                   => /\ masterPeer' = masterPeer
                      /\ peers'[masterPeer].isClosing = peers[masterPeer].isClosing
                      /\ peers'[masterPeer].sock = peers[masterPeer].sock]_vars

\* the part of C25 about a kept master connection
C25_KeptMasterStays ==
    [][(Handoff(lbLast') /\ keepMasterConnection)
          => TraceAt(lbLast', <<"master", "disconnect">>) = {}]_vars

\* the peer whose session id the step received
SessionOf(p) == Falsy(peers[p].sessionid) /\ ~Falsy(peers'[p].sessionid)

\* the master peer whose Authenticate the step answered
AuthenticateAnswered(p) ==
    /\ peers[p].kind = "master" /\ peers[p].pending # <<>>
    /\ Head(peers[p].pending) = "Authenticate"
    /\ peers'[p].pending \in {Tail(peers[p].pending),
                              Append(Tail(peers[p].pending), "JoinLobby")}

MasterDid(did, op, arg) == did.op = op /\ did.arg = arg /\ did.kind = "master"

\* the keys of the master's Authenticate for the configured authentication
MasterAuthKeys ==
    {"ApplicationId", "AppVersion"}
        \cup IF userAuth.type # AuthNone
             THEN {"ClientAuthenticationType", "ClientAuthenticationParams"} ELSE {}

\* C26 as stated: the connect status of a master peer sends exactly one
\* Authenticate with the application id and version, and with the authentication
\* type and parameters if and only if the type is not None; its success response
\* makes the state ConnectedToMaster and sends exactly one JoinLobby; the JoinLobby
\* success makes the state JoinedLobby; an Authenticate error makes the state
\* Error and sends no JoinLobby.
C26_MasterHandshake ==
    [][/\ MasterDid(lbLast', "status", "connect")
             => /\ lbLast'.trace = <<<<"master", "Authenticate">>>>
                /\ Len(lbLast'.auth) = 1
                /\ lbLast'.auth[1].keys = MasterAuthKeys
       /\ (MasterDid(lbLast', "response", "Authenticate") /\ lbLast'.ok)
             => /\ state' = ConnectedToMaster
                /\ lbLast'.trace = <<<<"master", "JoinLobby">>>>
       /\ (MasterDid(lbLast', "response", "JoinLobby") /\ lbLast'.ok)
             => state' = JoinedLobby
       /\ (MasterDid(lbLast', "response", "Authenticate") /\ ~lbLast'.ok)
             => (state' = Error /\ lbLast'.trace = <<>>)]_vars

\* C26, amended: the same, for a master peer that disconnect() has not been
\* called on; on a closing peer the sendOperation of the listener throws and
\* nothing is sent, the state being ConnectedToMaster after a success response.
C26_MasterHandshakeUnlessClosing ==
    [][/\ MasterDid(lbLast', "status", "connect")
             => \E p \in PeerIds :
                   /\ SessionOf(p)
                   /\ IF peers[p].isClosing
                      THEN lbLast'.threw /\ lbLast'.trace = <<>> /\ lbLast'.auth = <<>>
                      ELSE /\ ~lbLast'.threw
                           /\ lbLast'.trace = <<<<"master", "Authenticate">>>>
                           /\ Len(lbLast'.auth) = 1
                           /\ lbLast'.auth[1].keys = MasterAuthKeys
                           /\ lbLast'.auth[1].type = userAuth.type
                           /\ lbLast'.auth[1].params =
                                 IF userAuth.type # AuthNone THEN userAuth.parameters
                                 ELSE <<>>
       /\ (MasterDid(lbLast', "response", "Authenticate") /\ lbLast'.ok)
             => /\ state' = ConnectedToMaster
                /\ \E p \in PeerIds :
                      /\ AuthenticateAnswered(p)
                      /\ IF CanSend(peers[p])
                         THEN ~lbLast'.threw
                              /\ lbLast'.trace = <<<<"master", "JoinLobby">>>>
                         ELSE lbLast'.threw /\ lbLast'.trace = <<>>
       /\ (MasterDid(lbLast', "response", "JoinLobby") /\ lbLast'.ok)
             => state' = JoinedLobby
       /\ (MasterDid(lbLast', "response", "Authenticate") /\ ~lbLast'.ok)
             => (state' = Error /\ lbLast'.trace = <<>> /\ ~lbLast'.threw)]_vars

C26_Witness ==
    /\ MasterDid(lbLast, "response", "Authenticate") /\ lbLast.ok
    /\ lbLast.trace = <<<<"master", "JoinLobby">>>>
    /\ state = ConnectedToMaster /\ userAuth.type = AuthCustom /\ issued # <<>>
    /\ masterPeer # 0 /\ peers[masterPeer].pending = <<"JoinLobby">>

\* the elements of a list of rooms
RoomsOf(rooms) == {rooms[i] : i \in 1..Len(rooms)}
UniqueNames(rooms) == Cardinality(NamesOf(rooms)) = Len(rooms)

\* the room of this name in a list with unique names
RoomNamed(rooms, name) == CHOOSE r \in RoomsOf(rooms) : r.name = name

\* a room with the properties of an entry merged into it: the properties the
\* entry holds are the entry's, the others the room's
MergedWith(r, props) ==
    [name |-> r.name,
     playerCount |-> IF "playerCount" \in DOMAIN props THEN props.playerCount
                     ELSE r.playerCount,
     removed |-> IF "removed" \in DOMAIN props THEN props.removed ELSE r.removed]

Unassigned == -1

\* C28: the local actor is in the client's hands from construction on, and when
\* the game peer has disconnected (after leaveRoom(), disconnect() or a close of
\* the connection to the room) its actorNr is -1 again.
C28_ActorNrReset ==
    [][(lbLast'.op = "close" /\ lbLast'.kind = "game" /\ lbLast'.arg = "disconnect")
          => myActorNr' = Unassigned]_vars

\* C29: between two handlers the actor table holds the local actor under the
\* local actor's actorNr; no Join or Leave event and no join response removes
\* that entry or puts another actor there.
C29_LocalActorListed ==
    myActorNr \in DOMAIN actors /\ actors[myActorNr]

(***************************************************************************)
(* SpecProps: the PropertiesChanged listener of the game peer, with the     *)
(* Join event that fills the actor table.  A property map is a function    *)
(* from keys (strings) to values.  Of the room's fields the model keeps    *)
(* those the event can write: a field is <<>> while it holds what the      *)
(* constructor gave it and <<v>> once _updateFromProps copied v into it.   *)
(* GameProperties.Removed and ParameterCode.Properties are both 251, so    *)
(* that removed receives a reference to the event's Properties object.     *)
(***************************************************************************)
\* ParameterCode
ParamProperties    == 251
ParamTargetActorNr == 253
\* GameProperties: the codes _updateFromProps looks up in its props argument
PropIsOpen  == 253
PropRemoved == 251

PropKeys   == {<<"a">>, <<"7">>}
PropValues == {"x", "y"}
PropMaps   == UNION {[D -> PropValues] : D \in SUBSET PropKeys}
\* the TargetActorNr of an event: 0 for the game, or an actor
TargetNrs  == {0} \cup ActorNrs
\* data.vals of a PropertiesChanged event: the properties, and a target or none
PropsVals ==
    {[c \in {ParamProperties} |-> pm] : pm \in PropMaps}
        \cup {[c \in {ParamProperties, ParamTargetActorNr} |->
                  IF c = ParamProperties THEN pm ELSE t] :
              pm \in PropMaps, t \in TargetNrs}

\* parseInt(k).toString() == k
IntegerKey(k) ==
    /\ k # <<>>
    /\ \A i \in 1..Len(k) : \E d \in 1..10 : Digits[d] = k[i]
    /\ Len(k) > 1 => k[1] # "0"

\* for(var p in vals) this.customProperties[p] = vals[p]
Assign(map, vals, keys) ==
    [k \in DOMAIN map \cup keys |-> IF k \in keys THEN vals[k] ELSE map[k]]

\* Actor._updateCustomProperties
_updateCustomProperties(customProperties, vals) ==
    Assign(customProperties, vals, DOMAIN vals)

\* RoomInfo._updateFromProps(props, customProps) on the current room
_updateFromPropsOfRoom(room, props, customProps) ==
    [isOpen  |-> IF PropIsOpen \in DOMAIN props THEN <<props[PropIsOpen]>>
                 ELSE room.isOpen,
     removed |-> IF PropRemoved \in DOMAIN props THEN <<"Properties">>
                 ELSE room.removed,
     custom  |-> Assign(room.custom, customProps,
                        {k \in DOMAIN customProps : ~IntegerKey(k)})]

PropsDid(op, vals, calls) == [op |-> op, vals |-> vals, calls |-> calls]
Hook(name, actorNr) == [hook |-> name, actor |-> actorNr]

\* the state after the PropertiesChanged listener that always updates the room
GameOnPropertiesChanged_AlsoRoom(a, room, vals) ==
    LET named == ParamTargetActorNr \in DOMAIN vals /\ vals[ParamTargetActorNr] > 0
        t     == vals[ParamTargetActorNr]
    IN  [actors |-> IF named /\ t \in DOMAIN a
                    THEN [a EXCEPT ![t] = _updateCustomProperties(@, vals[ParamProperties])]
                    ELSE a,
         room   |-> _updateFromPropsOfRoom(room, vals, vals[ParamProperties]),
         calls  |-> IF ~named THEN <<Hook("onMyRoomPropertiesChange", 0)>>
                    ELSE IF t \in DOMAIN a THEN <<Hook("onActorPropertiesChange", t)>>
                    ELSE <<>>]

\* the state after the PropertiesChanged listener of initGamePeer
GameOnPropertiesChanged(a, room, vals) ==
    IF ParamTargetActorNr \in DOMAIN vals /\ vals[ParamTargetActorNr] > 0
    THEN LET t == vals[ParamTargetActorNr]
         IN  IF t \in DOMAIN a
             THEN [actors |-> [a EXCEPT ![t] =
                                  _updateCustomProperties(@, vals[ParamProperties])],
                   room   |-> room,
                   calls  |-> <<Hook("onActorPropertiesChange", t)>>]
             ELSE [actors |-> a, room |-> room, calls |-> <<>>]
    ELSE [actors |-> a,
          room   |-> _updateFromPropsOfRoom(room, vals, vals[ParamProperties]),
          calls  |-> <<Hook("onMyRoomPropertiesChange", 0)>>]

EvPropertiesChanged(vals) ==
    LET r == GameOnPropertiesChanged(propActors, propRoom, vals)
    IN  /\ propActors' = r.actors
        /\ propRoom' = r.room
        /\ propsLast' = PropsDid("PropertiesChanged", vals, r.calls)
        /\ UNCHANGED <<peerVars, roomVars, lbVars, exceptProps>>

\* the Join event of another actor: a new Actor, without custom properties
EvJoin(nr) ==
    /\ propActors' = [k \in DOMAIN propActors \cup {nr} |->
                         IF k = nr THEN <<>> ELSE propActors[k]]
    /\ propsLast' = PropsDid("Join", <<>>, <<>>)
    /\ UNCHANGED <<propRoom, peerVars, roomVars, lbVars, exceptProps>>

NextProps ==
    \/ \E vals \in PropsVals : EvPropertiesChanged(vals)
    \/ \E nr \in ActorNrs : EvJoin(nr)

SpecProps == Init /\ [][NextProps]_vars

\* the event has a TargetActorNr that is the number of an actor
NamesActor(vals) ==
    ParamTargetActorNr \in DOMAIN vals /\ vals[ParamTargetActorNr] > 0

\* the map with the properties of the event written over it
Overwritten(map, pm) ==
    [k \in DOMAIN map \cup DOMAIN pm |-> IF k \in DOMAIN pm THEN pm[k] ELSE map[k]]

\* C30 as stated: a PropertiesChanged event that names a target actor writes
\* its properties to that actor's custom properties only and calls
\* onActorPropertiesChange once, for that actor; one without target actor writes
\* to the room only and calls onMyRoomPropertiesChange once.
C30_PropertiesChangedFrame ==
    [][propsLast'.op = "PropertiesChanged"
          => LET vals == propsLast'.vals
             IN  IF NamesActor(vals)
                 THEN /\ propRoom' = propRoom
                      /\ propsLast'.calls =
                            <<Hook("onActorPropertiesChange", vals[ParamTargetActorNr])>>
                      /\ \A k \in DOMAIN propActors \ {vals[ParamTargetActorNr]} :
                            propActors'[k] = propActors[k]
                 ELSE /\ propActors' = propActors
                      /\ propsLast'.calls = <<Hook("onMyRoomPropertiesChange", 0)>>]_vars

\* C30, amended: the same when the target actor is in the actor table; for a
\* target that is not, the event changes nothing and calls no hook.
C30_PropertiesChangedKnownActor ==
    [][propsLast'.op = "PropertiesChanged"
          => LET vals == propsLast'.vals
                 t    == vals[ParamTargetActorNr]
                 pm   == vals[ParamProperties]
             IN  IF NamesActor(vals)
                 THEN /\ propRoom' = propRoom
                      /\ DOMAIN propActors' = DOMAIN propActors
                      /\ \A k \in DOMAIN propActors \ {t} : propActors'[k] = propActors[k]
                      /\ IF t \in DOMAIN propActors
                         THEN /\ propActors'[t] = Overwritten(propActors[t], pm)
                              /\ propsLast'.calls = <<Hook("onActorPropertiesChange", t)>>
                         ELSE propsLast'.calls = <<>>
                 ELSE /\ propActors' = propActors
                      /\ propsLast'.calls = <<Hook("onMyRoomPropertiesChange", 0)>>
                      /\ \A k \in DOMAIN pm :
                            ~IntegerKey(k) => (k \in DOMAIN propRoom'.custom
                                               /\ propRoom'.custom[k] = pm[k])
                      /\ \A k \in DOMAIN propRoom.custom \ DOMAIN pm :
                            k \in DOMAIN propRoom'.custom
                            /\ propRoom'.custom[k] = propRoom.custom[k]]_vars

C30_Witness ==
    /\ propsLast.op = "PropertiesChanged"
    /\ propsLast.calls = <<Hook("onActorPropertiesChange", 1)>>
    /\ 2 \in DOMAIN propActors
    /\ propActors[1] # <<>> /\ propActors[2] # <<>> /\ propActors[1] # propActors[2]
    /\ propRoom.custom # <<>>

(***************************************************************************)
(* SpecSet: setCustomProperty of the current room and of Actor objects, in *)
(* the workflow that leads to a room by createRoom.  The application calls *)
(* it on currentRoom (myRoom()), on _myActor (myActor()) and on the remote *)
(* Actor objects of the actor table (myRoomActors()).                      *)
(***************************************************************************)
\* ParameterCode
ParamActorNr   == 254
ParamBroadcast == 250

MaxSets  == 1              \* setCustomProperty calls of one run
SetNames == {<<"a">>}

\* { name: value }
Prop(name, value) == [k \in {name} |-> value]

\* customProperties of the Actor object constructed with the number on
PropsOf(on) == IF on \in DOMAIN propActors THEN propActors[on] ELSE <<>>
\* the actorNr of that object now: only _myActor's is ever reassigned
ActorNrOf(c, on) == IF on = Unassigned THEN c.myActorNr ELSE on

\* the operation handed to gamePeer.sendOperation, and the client after it
_setPropertiesOfRoom(c, properties) ==
    [c  |-> sendOperationOn(c, c.gamePeer, "SetProperties"),
     op |-> <<ParamProperties, properties, ParamBroadcast, TRUE>>]

\* the actor of the operation is myActor()
_setPropertiesOfActor(c, properties) ==
    [c  |-> sendOperationOn(c, c.gamePeer, "SetProperties"),
     op |-> <<ParamActorNr, c.myActorNr, ParamProperties, properties,
              ParamBroadcast, TRUE>>]

\* what a setCustomProperty did: the object's properties after it, the
\* operation that went out (<<>>: none) and the hooks called
SetResult(c, properties, r, hooks) ==
    [c |-> r.c, properties |-> properties,
     sent  |-> IF r.c.threw \/ r.c.full THEN <<>> ELSE r.op,
     calls |-> IF r.c.threw \/ r.c.full THEN <<>> ELSE hooks]

\* Room.setCustomProperty
RoomSetCustomProperty(c, customProperties, name, value) ==
    LET written == Assign(customProperties, Prop(name, value), {name})
        hook    == <<Hook("Room.onPropertiesChange", 0)>>
    IN  IF c.state = Joined
        THEN SetResult(c, written, _setPropertiesOfRoom(c, Prop(name, value)), hook)
        ELSE [c |-> c, properties |-> written, sent |-> <<>>, calls |-> hook]

\* Actor.setCustomProperty on the Actor object constructed with the number on
ActorSetCustomProperty(c, on, customProperties, name, value) ==
    LET written == Assign(customProperties, Prop(name, value), {name})
    IN  IF c.state = Joined
        THEN SetResult(c, written, _setPropertiesOfActor(c, Prop(name, value)),
                       <<Hook("Actor.onPropertiesChange", ActorNrOf(c, on))>>)
        ELSE [c |-> c, properties |-> written, sent |-> <<>>, calls |-> <<>>]

SetCount == IF propsLast.op = "new" THEN 0 ELSE propsLast.sets

SetDid(op, on, name, value, r) ==
    [op |-> op, on |-> on, name |-> name, value |-> value, sent |-> r.sent,
     threw |-> r.c.threw, calls |-> r.calls, sets |-> SetCount + 1]

\* myRoom().setCustomProperty(name, value)
SetRoomProperty(name, value) ==
    LET r == RoomSetCustomProperty(Client, propRoom.custom, name, value)
    IN  /\ SetCount < MaxSets /\ ~r.c.full
        /\ CommitLB(r.c, LBDid("setCustomProperty", "room", "", TRUE, 0, {}, r.c), FALSE)
        /\ propRoom' = [propRoom EXCEPT !.custom = r.properties]
        /\ propsLast' = SetDid("Room.setCustomProperty", 0, name, value, r)
        /\ UNCHANGED <<propActors, apiCalls, faults, peerVars, roomVars, exceptProps>>

\* setCustomProperty on myActor() (on = -1) or on a remote actor of myRoomActors()
SetActorProperty(on, name, value) ==
    LET r == ActorSetCustomProperty(Client, on, PropsOf(on), name, value)
    IN  /\ on = Unassigned \/ (on \in DOMAIN actors /\ ~actors[on])
        /\ SetCount < MaxSets /\ ~r.c.full
        /\ CommitLB(r.c, LBDid("setCustomProperty", "actor", "", TRUE, on, {}, r.c), FALSE)
        /\ propActors' = [k \in DOMAIN propActors \cup {on} |->
                             IF k = on THEN r.properties ELSE propActors[k]]
        /\ propsLast' = SetDid("Actor.setCustomProperty", on, name, value, r)
        /\ UNCHANGED <<propRoom, apiCalls, faults, peerVars, roomVars, exceptProps>>

\* createRoom(): currentRoom becomes a new Room, then the operation is sent
SetCreateRoom ==
    LET c == sendOperationOn(Client, masterPeer, "CreateGame")
    IN  /\ ~c.full /\ Call
        /\ CommitLB(c, LBDid("createRoom", "", "", TRUE, 0, {}, c), FALSE)
        /\ propRoom' = [isOpen |-> <<>>, removed |-> <<>>, custom |-> <<>>]
        /\ UNCHANGED <<propActors, propsLast, peerVars, roomVars, exceptProps>>

\* the Join event: for another actor's number a new Actor object is put in the table
SetJoinEvent(p, nr) ==
    LET c == GameOnJoinEvent(Client, nr)
    IN  /\ Live(p) /\ peers[p].kind = "game" /\ ~Falsy(peers[p].sessionid)
        /\ ~c.full /\ Event(FALSE)
        /\ CommitLB(c, LBDid("event", "Join", "game", TRUE, nr, {}, c), TRUE)
        /\ propActors' = IF nr = myActorNr THEN propActors
                         ELSE [k \in DOMAIN propActors \cup {nr} |->
                                  IF k = nr THEN <<>> ELSE propActors[k]]
        /\ UNCHANGED <<propRoom, propsLast, peerVars, roomVars, exceptProps>>

NextSet ==
    \/ \E keep \in BOOLEAN : LBConnect(keep)
    \/ SetCreateRoom
    \/ LBDisconnect
    \/ \E p \in PeerIds : LBSession(p)
    \/ \E p \in PeerIds, ok \in BOOLEAN, nr \in {0} \cup ActorNrs :
          LBResponse(p, ok, nr, {})
    \/ \E p \in PeerIds, nr \in ActorNrs : SetJoinEvent(p, nr)
    \/ \E p \in PeerIds, code \in {CloseNormal, CloseAbnormal} : LBClose(p, code)
    \/ \E name \in SetNames, value \in PropValues : SetRoomProperty(name, value)
    \/ \E on \in {Unassigned} \cup ActorNrs, name \in SetNames, value \in PropValues :
          SetActorProperty(on, name, value)

SpecSet == Init /\ [][NextSet]_vars

\* the step is a setCustomProperty on the current room or on the local actor
SetsLocal ==
    /\ propsLast' # propsLast
    /\ \/ propsLast'.op = "Room.setCustomProperty"
       \/ propsLast'.op = "Actor.setCustomProperty" /\ propsLast'.on = Unassigned

\* the value the object of the call holds under the name of the call
LocalValue(did, room, table) ==
    LET map == IF did.op = "Room.setCustomProperty" THEN room.custom ELSE table[did.on]
    IN  IF did.name \in DOMAIN map THEN <<map[did.name]>> ELSE <<>>

\* the step is the listener of an error response to SetProperties
SetPropertiesFails ==
    /\ lbLast' # lbLast
    /\ lbLast'.op = "response" /\ lbLast'.arg = "SetProperties" /\ ~lbLast'.ok

\* C31: setCustomProperty on the current room or on the local actor writes the
\* value in every state of the workflow and sends SetProperties if and only
\* if the state is Joined; an error response to SetProperties leaves the
\* properties as they are.
C31_SetCustomProperty ==
    [][/\ SetsLocal
          => /\ LocalValue(propsLast', propRoom', propActors') = <<propsLast'.value>>
             /\ (propsLast'.sent # <<>>) <=> (state = Joined)
       /\ SetPropertiesFails
          => /\ propRoom' = propRoom /\ propActors' = propActors
             /\ lbLast'.observed = <<<<"SetProperties", FALSE>>>>]_vars

\* what holds of the code: the operation goes out in Joined unless the game
\* peer cannot send, in which case the call throws after writing the value
C31_SetCustomPropertyWhileSending ==
    [][/\ SetsLocal
          => /\ LocalValue(propsLast', propRoom', propActors') = <<propsLast'.value>>
             /\ (propsLast'.sent # <<>>)
                   <=> (state = Joined /\ CanSend(peers[gamePeer]))
             /\ propsLast'.threw <=> (state = Joined /\ ~CanSend(peers[gamePeer]))
       /\ SetPropertiesFails
          => /\ propRoom' = propRoom /\ propActors' = propActors
             /\ lbLast'.observed = <<<<"SetProperties", FALSE>>>>]_vars

\* a value set in Joined, the operation out, and its error response received
C31_Reached ==
    /\ lbLast.op = "response" /\ lbLast.arg = "SetProperties" /\ ~lbLast.ok
    /\ propsLast.op = "Room.setCustomProperty" /\ propsLast.sent # <<>>
    /\ propRoom.custom = Prop(propsLast.name, propsLast.value)

\* the step is a setCustomProperty on an Actor object that sent its operation
ActorSetSends ==
    /\ propsLast' # propsLast
    /\ propsLast'.op = "Actor.setCustomProperty" /\ propsLast'.sent # <<>>

\* C32: the SetProperties operation of a setCustomProperty called on an Actor
\* object carries, as ActorNr, the actorNr of that object: the actor whose
\* properties were written and the actor the operation names are the same.
C32_OperationNamesActor ==
    [][ActorSetSends
          => /\ propsLast'.sent[1] = ParamActorNr
             /\ propsLast'.sent[2] = ActorNrOf(Client, propsLast'.on)
             /\ propActors'[propsLast'.on] # PropsOf(propsLast'.on)]_vars

\* what holds of the code: the operation names the local actor, whichever
\* object the call was made on
C32_OperationNamesMyActor ==
    [][ActorSetSends
          => /\ propsLast'.sent[1] = ParamActorNr
             /\ propsLast'.sent[2] = myActorNr
             /\ propActors'[propsLast'.on] # PropsOf(propsLast'.on)]_vars

(***************************************************************************)
(* SpecStatus: one PhotonPeer with listeners on its status channel, over   *)
(* connections that are opened, closed by either side and opened again.    *)
(***************************************************************************)
StatusFrames == {<<>>, << <<"s">> >>, << <<>> >>, << JsonMark \o <<"R1">> >>}

NextStatus ==
    \/ PeerConnect
    \/ PeerDisconnect
    \/ SocketOpen
    \/ \E frames \in StatusFrames : SocketMessage(frames)
    \/ \E code \in {CloseNormal, CloseAbnormal} : SocketClose(code)
    \/ SocketError
    \/ \E code \in StatusCodes : AddListener("status", code, "f")

SpecStatus == Init /\ [][NextStatus]_vars

\* the step is the onclose of the socket
SocketCloses == socket # "closed" /\ socket' = "closed"

\* the calls a dispatch of the status code makes in this state
StatusCalls(code) == _dispatchPeerStatus(listeners, code)

TimeoutCalls(did) ==
    IF did.arg = CloseCode(CloseAbnormal) THEN StatusCalls("timeout") ELSE <<>>

\* C34: when the socket of a connected peer closes, disconnect is dispatched if
\* disconnect() asked for the close and connectClosed otherwise, never both; a
\* close while connecting dispatches connectFailed only; after a close the
\* peer is not connected, not connecting and not closing.
C34_CloseStatus ==
    [][SocketCloses
          => /\ peer.isConnecting => last'.calls = StatusCalls("connectFailed")
             /\ peer.isConnected
                   => last'.calls = TimeoutCalls(last')
                          \o StatusCalls(IF socket = "closing" THEN "disconnect"
                                         ELSE "connectClosed")
             /\ ~peer'.isConnected /\ ~peer'.isConnecting /\ ~peer'.isClosing]_vars

\* what holds of the code: the status follows the closing flag, which a close
\* while connecting does not clear
C34_CloseStatusByFlag ==
    [][SocketCloses
          => /\ peer.isConnecting
                   => /\ last'.calls = StatusCalls("connectFailed")
                      /\ peer'.isClosing = peer.isClosing
             /\ peer.isConnected
                   => last'.calls = TimeoutCalls(last')
                          \o StatusCalls(IF peer.isClosing THEN "disconnect"
                                         ELSE "connectClosed")
             /\ ~peer.isConnecting => ~peer'.isClosing
             /\ ~peer'.isConnected /\ ~peer'.isConnecting]_vars

\* the dispatch part of C34 alone
C34_StatusAsRequested ==
    [][(SocketCloses /\ peer.isConnected)
          => last'.calls = TimeoutCalls(last')
                 \o StatusCalls(IF socket = "closing" THEN "disconnect"
                                ELSE "connectClosed")]_vars

(***************************************************************************)
(* SpecSession: one PhotonPeer that is connected, closed and connected     *)
(* again, with listeners of the connect status.  No socket error occurs:   *)
(* between connect() and the close of the socket the peer is connecting    *)
(* exactly until _onConnect has run.                                       *)
(***************************************************************************)
NextSession ==
    \/ PeerConnect
    \/ PeerDisconnect
    \/ SocketOpen
    \/ \E frames \in StatusFrames : SocketMessage(frames)
    \/ \E code \in {CloseNormal, CloseAbnormal} : SocketClose(code)
    \/ \E code \in {"connect"} : AddListener("status", code, "f")

SpecSession == Init /\ [][NextSession]_vars

\* the string _onMessage is handed for the frames of a socket message
MessageOf(frames) == ArrayToString(_decode(_encode(frames)))

ConnectCalls(did) ==
    SelectSeq(did.calls, LAMBDA x : x[1] = "status" /\ x[2] = "connect")

Flags(p) == <<p.isConnecting, p.isConnected, p.isClosing>>

\* C35: on a connection, the first message that is not JSON becomes the
\* session id and dispatches connect, and reaches no other listener; every
\* other message dispatches no connect and leaves the flags as they are.
C35_ConnectOnce ==
    [][last'.op = "message"
          => LET message == MessageOf(last'.frames)
             IN  IF peer.isConnecting /\ ~StartsWith(message, JsonMark)
                 THEN /\ last'.calls = StatusCalls("connect")
                      /\ peer'.sessionid = message
                      /\ peer'.isConnected /\ ~peer'.isConnecting
                 ELSE /\ ConnectCalls(last') = <<>>
                      /\ Flags(peer') = Flags(peer)]_vars

\* what holds of the code: a message that is not JSON becomes the session id
\* and dispatches connect whenever _sessionid is undefined or empty, on
\* whichever connection and however many times
C35_ConnectWhileNoSessionId ==
    [][last'.op = "message"
          => LET message == MessageOf(last'.frames)
             IN  IF Falsy(peer.sessionid) /\ ~StartsWith(message, JsonMark)
                 THEN /\ last'.calls = StatusCalls("connect")
                      /\ peer'.sessionid = message
                      /\ peer'.isConnected /\ ~peer'.isConnecting
                 ELSE /\ ConnectCalls(last') = <<>>
                      /\ peer' = peer]_vars

\* the session id of the connection before is still there
C35_StaleSessionId ==
    /\ last.op = "message" /\ MessageOf(last.frames) = <<"s">>
    /\ peer.isConnecting /\ peer.sessionid = <<"s">>

(***************************************************************************)
(* SpecRoute: one parsed JSON envelope handed to _onMessageReceived.  The  *)
(* envelope is valsIn: res, evt and irs are the codes of the members it    *)
(* carries ("" for a member it does not carry), vals is its vals array.    *)
(***************************************************************************)
MaxRouteVals == 2      \* elements of the vals array of a routed envelope

Envelopes ==
    [res : {"", "1"}, evt : {"", "2"}, irs : {"", "1"},
     vals : {v \in ValsArrays : Len(v) <= MaxRouteVals}]

\* a chain that looks at evt before res
EnvelopeOf_EventFirst(msg) ==
    IF msg.evt # "" THEN [kind |-> "evt", code |-> msg.evt]
    ELSE IF msg.res # "" THEN [kind |-> "res", code |-> msg.res]
    ELSE IF msg.irs # "" THEN [kind |-> "irs", code |-> msg.irs]
    ELSE [kind |-> "none", code |-> "1"]

\* the if chain of _onMessageReceived: msgJSON.res !== undefined, else
\* msgJSON.evt !== undefined, else msgJSON.irs !== undefined
EnvelopeOf(msg) ==
    IF msg.res # "" THEN [kind |-> "res", code |-> msg.res]
    ELSE IF msg.evt # "" THEN [kind |-> "evt", code |-> msg.evt]
    ELSE IF msg.irs # "" THEN [kind |-> "irs", code |-> msg.irs]
    ELSE [kind |-> "none", code |-> "1"]

InitRouteInputs ==
    /\ InitPeer /\ InitRooms /\ InitLB /\ InitLite /\ InitCodec /\ InitSample /\ InitProps /\ InitParams
    /\ valsIn \in Envelopes
    /\ valsOut = [done |-> FALSE, threw |-> FALSE, json |-> <<>>, calls |-> <<>>]

\* the envelope valsIn is received
RouteReceive ==
    LET r == _onMessageReceivedVals(listeners, EnvelopeOf(valsIn), valsIn.vals)
    IN  /\ ~valsOut.done
        /\ valsOut' = [done |-> TRUE, threw |-> r.threw, json |-> r.json, calls |-> r.calls]
        /\ UNCHANGED <<peerVars, roomVars, lbVars, exceptVals, valsIn>>

\* addEventListener / addResponseListener before the envelope arrives
RouteAddListener(ch, code, cb) ==
    /\ ~valsOut.done
    /\ AddListener(ch, code, cb)

NextRoute ==
    \/ \E ch \in {"event", "response"}, code \in Codes, cb \in Callbacks :
          RouteAddListener(ch, code, cb)
    \/ RouteReceive

SpecRoute == InitRouteInputs /\ [][NextRoute]_vars

\* what the claim says the envelope msg does
Routed(msg, out) ==
    IF msg.res # "" THEN ~out.threw /\ out.calls = _dispatchResponse(listeners, msg.res)
    ELSE IF msg.evt # "" THEN ~out.threw /\ out.calls = _dispatchEvent(listeners, msg.evt)
    ELSE IF msg.irs # "" THEN ~out.threw /\ out.calls = <<>>
    ELSE out.threw /\ out.calls = <<>>

\* C36 as stated: every envelope goes to one channel, to response dispatch if
\* it carries res, otherwise to event dispatch if it carries evt, otherwise to
\* the internal handler, which calls nothing, if it carries irs; one that
\* carries none of them raises an error and calls no listener.
C36_OneChannel == valsOut.done => Routed(valsIn, valsOut)

\* C36, amended: so for an envelope whose vals array has an even length; one
\* with a vals array of odd length raises an error and calls nothing, whatever
\* it carries.
C36_OneChannelUnlessOddVals ==
    valsOut.done
        => IF Len(valsIn.vals) % 2 = 1 THEN valsOut.threw /\ valsOut.calls = <<>>
           ELSE Routed(valsIn, valsOut)

\* an envelope with res and evt reached the response listener only
C36_Witness ==
    /\ valsOut.done /\ valsIn.res = "1" /\ valsIn.evt = "2"
    /\ listeners["event"]["2"].list = <<"g">>
    /\ valsOut.calls = << <<"response", "1", "f">> >>


(***************************************************************************)
(* SpecParams: the parameter arrays the operations hand to sendOperation.  *)
(* An element of an array is a key [key |-> name] or a value               *)
(* [value |-> kind]; an argument is known by its kind.                     *)
(***************************************************************************)
ArgKinds == {"undefined", "emptyArray", "array", "object"}
ParamOps == {"join", "leave", "raiseEvent", "setActorProperties", "getActorProperties",
             "setRoomProperties", "getRoomProperties", "joinRandomRoom",
             "createRoomInternal", "changeGroups"}
ParamInputs == [op : ParamOps, a : ArgKinds, b : ArgKinds, n : 0..1, isJoined : BOOLEAN]

\* typeof x === "object"
IsObject(x) == x \in {"emptyArray", "array", "object"}
\* Exitgames.Common.Util.isArray(x) with x.length > 0
IsFilledArray(x) == x = "array"
\* for (var k in x) runs at least once
HasKeys(x) == x \in {"array", "object"}

Sent(vals) == [threw |-> FALSE, vals |-> vals]
Thrown == [threw |-> TRUE, vals |-> <<>>]

\* LitePeer.join(roomName, roomProperties, actorProperties, broadcast) on a connected peer
join(isJoined, roomProperties, actorProperties) ==
    IF ~isJoined
    THEN Sent(<<[key |-> "GameId"], [value |-> "string"]>>
              \o (IF IsObject(roomProperties)
                  THEN <<[key |-> "GameProperties"], [value |-> roomProperties]>> ELSE <<>>)
              \o (IF IsObject(actorProperties)
                  THEN <<[key |-> "ActorProperties"], [value |-> actorProperties]>> ELSE <<>>)
              \o <<[key |-> "Broadcast"], [value |-> "boolean"]>>)
    ELSE Thrown

\* LitePeer.leave(): sendOperation(Leave) without data, vals stays []
leave(isJoined) == IF isJoined THEN Sent(<<>>) ELSE Thrown

\* LitePeer.raiseEvent(eventCode, data)
LitePeerRaiseEvent(isJoined, data) ==
    IF isJoined /\ data # "undefined"
    THEN Sent(<<[key |-> "Code"], [value |-> "number"], [key |-> "Data"], [value |-> data]>>)
    ELSE Thrown

\* LitePeer.setActorProperties(actorNr, data, broadcast)
setActorProperties(isJoined, data) ==
    IF isJoined
    THEN Sent(<<[key |-> "Broadcast"], [value |-> "boolean"], [key |-> "Properties"],
                [value |-> data], [key |-> "ActorNr"], [value |-> "number"]>>)
    ELSE Thrown

\* LitePeer.getActorProperties(propertyKeys, actorNrs)
getActorProperties(isJoined, propertyKeys, actorNrs) ==
    LET s1 == <<[key |-> "ActorProperties"]>>
        s2 == IF propertyKeys # "undefined" /\ IsFilledArray(propertyKeys)
              THEN Append(s1, [value |-> propertyKeys]) ELSE s1
        s3 == IF Len(s2) # 2 THEN Append(s2, [value |-> "null"]) ELSE s2
        s4 == Append(s3, [key |-> "ActorList"])
        s5 == IF actorNrs # "undefined" /\ IsFilledArray(actorNrs)
              THEN Append(s4, [value |-> actorNrs]) ELSE s4
        s6 == IF Len(s5) # 4 THEN Append(s5, [value |-> "null"]) ELSE s5
    IN  IF isJoined
        THEN Sent(s6 \o <<[key |-> "Properties"], [value |-> "number"]>>)
        ELSE Thrown

\* LitePeer.setRoomProperties(data, broadcast)
setRoomProperties(isJoined, data) ==
    IF isJoined
    THEN Sent(<<[key |-> "Broadcast"], [value |-> "boolean"], [key |-> "Properties"],
                [value |-> data]>>)
    ELSE Thrown

\* LitePeer.getRoomProperties(propertyKeys)
getRoomProperties(isJoined, propertyKeys) ==
    LET s1 == <<[key |-> "GameProperties"]>>
        s2 == IF propertyKeys # "undefined"
              THEN IF IsFilledArray(propertyKeys)
                   THEN Append(s1, [value |-> propertyKeys]) ELSE s1
              ELSE Append(s1, [value |-> "null"])
    IN  IF isJoined THEN Sent(s2) ELSE Thrown

\* LoadBalancingClient.joinRandomRoom(expectedCustomRoomProperties, expectedMaxPlayers,
\* matchingType); fillRoom: matchingType is MatchmakingMode.FillRoom
joinRandomRoom(expectedCustomRoomProperties, expectedMaxPlayers, fillRoom) ==
    LET propNonEmpty == \/ expectedCustomRoomProperties # "undefined"
                           /\ HasKeys(expectedCustomRoomProperties)
                        \/ expectedMaxPlayers > 0
    IN  Sent((IF ~fillRoom THEN <<[key |-> "MatchMakingType"], [value |-> "number"]>>
              ELSE <<>>)
             \o (IF propNonEmpty THEN <<[key |-> "GameProperties"], [value |-> "object"]>>
                 ELSE <<>>))

\* LoadBalancingClient.createRoomInternal(peer); named: currentRoom.name is not empty
createRoomInternal(named, toGamePeer) ==
    Sent((IF named THEN <<[key |-> "RoomName"], [value |-> "string"]>> ELSE <<>>)
         \o <<[key |-> "GameProperties"], [value |-> "object"],
              [key |-> "CleanupCacheOnLeave"], [value |-> "boolean"],
              [key |-> "Broadcast"], [value |-> "boolean"]>>
         \o (IF toGamePeer THEN <<[key |-> "PlayerProperties"], [value |-> "object"]>>
             ELSE <<>>))

\* GamePeer.changeGroups(groupsToRemove, groupsToAdd); checkGroupArray throws on a
\* value that is not an array
changeGroups(groupsToRemove, groupsToAdd) ==
    LET given(g) == g # "undefined"
        isArr(g) == g \in {"emptyArray", "array"}
    IN  IF (given(groupsToRemove) /\ ~isArr(groupsToRemove))
           \/ (given(groupsToAdd) /\ ~isArr(groupsToAdd))
        THEN Thrown
        ELSE Sent((IF given(groupsToRemove)
                   THEN <<[key |-> "Remove"], [value |-> groupsToRemove]>> ELSE <<>>)
                  \o (IF given(groupsToAdd)
                      THEN <<[key |-> "Add"], [value |-> groupsToAdd]>> ELSE <<>>))

\* the operation paramsIn names, called with its arguments
BuildVals(in) ==
    CASE in.op = "join" -> join(in.isJoined, in.a, in.b)
      [] in.op = "leave" -> leave(in.isJoined)
      [] in.op = "raiseEvent" -> LitePeerRaiseEvent(in.isJoined, in.a)
      [] in.op = "setActorProperties" -> setActorProperties(in.isJoined, in.a)
      [] in.op = "getActorProperties" -> getActorProperties(in.isJoined, in.a, in.b)
      [] in.op = "setRoomProperties" -> setRoomProperties(in.isJoined, in.a)
      [] in.op = "getRoomProperties" -> getRoomProperties(in.isJoined, in.a)
      [] in.op = "joinRandomRoom" -> joinRandomRoom(in.a, in.n, in.isJoined)
      [] in.op = "createRoomInternal" -> createRoomInternal(in.n = 1, in.isJoined)
      [] in.op = "changeGroups" -> changeGroups(in.a, in.b)

InitParamsInputs ==
    /\ InitPeer /\ InitRooms /\ InitLB /\ InitLite /\ InitCodec /\ InitVals /\ InitSample
    /\ InitProps
    /\ paramsIn \in ParamInputs
    /\ paramsOut = [done |-> FALSE, threw |-> FALSE, vals |-> <<>>]

\* the operation is called: what sendOperation is handed becomes the request's vals
ParamsCall ==
    LET r == BuildVals(paramsIn)
    IN  /\ ~paramsOut.done
        /\ paramsOut' = [done |-> TRUE, threw |-> r.threw, vals |-> r.vals]
        /\ UNCHANGED <<peerVars, roomVars, lbVars, exceptParams, paramsIn>>

NextParams ==
    \/ ParamsCall

SpecParams == InitParamsInputs /\ [][NextParams]_vars

IsKey(e) == "key" \in DOMAIN e
\* a flat array of even length in which keys and values alternate
Alternates(vals) ==
    /\ Len(vals) % 2 = 0
    /\ \A i \in 1..Len(vals) : IsKey(vals[i]) <=> (i % 2 = 1)

ParamsSent == paramsOut.done /\ ~paramsOut.threw
\* getRoomProperties called with a filter that is given but is not a filled array
UnfilledRoomFilter ==
    paramsIn.op = "getRoomProperties" /\ paramsIn.a \in {"emptyArray", "object"}

\* C37: every operation request carries a flat parameter array of even length in which
\* keys and values alternate, for every argument the operations accept
C37_FlatPairs == ParamsSent => Alternates(paramsOut.vals)

\* what holds: every request but that of getRoomProperties with an empty or non-array
\* filter carries alternating keys and values; that one carries the lone key
C37_FlatPairsUnlessUnfilledFilter ==
    ParamsSent =>
        IF UnfilledRoomFilter THEN paramsOut.vals = <<[key |-> "GameProperties"]>>
        ELSE Alternates(paramsOut.vals)

\* getRoomProperties([]) on a joined peer has sent its request
C37_LoneKey == ParamsSent /\ UnfilledRoomFilter /\ paramsIn.a = "emptyArray"


(***************************************************************************)
(* LitePeer.isJoined through responses and through the end of a connection *)
(* (SpecLite)                                                              *)
(***************************************************************************)
JoinResponse(did, outcome) == did.op = "response" /\ did.arg = <<"join", outcome>>

\* C38: isJoined becomes true only by a join response with a zero error code; a
\* join response with a non-zero error code leaves isJoined false and the actor
\* table unchanged
C38_JoinedBySuccessOnly ==
    [][/\ (~lite.isJoined /\ lite'.isJoined) => JoinResponse(liteLast', "ok")
       /\ (JoinResponse(liteLast', "error") /\ ~lite.isJoined)
            => (~lite'.isJoined /\ lite'.actors = lite.actors)]_vars

\* what holds: isJoined becomes true only by a join response, and every join
\* response makes it true and enters the actor number it carries, or -1 if it
\* carries none, into the actor table, whatever its error code is
C38_JoinedByAnyJoinResponse ==
    [][/\ (~lite.isJoined /\ lite'.isJoined)
            => (JoinResponse(liteLast', "ok") \/ JoinResponse(liteLast', "error"))
       /\ JoinResponse(liteLast', "error")
            => (lite'.isJoined /\ lite'.actors = lite.actors \cup {-1}
                /\ lite'.myActor = -1)]_vars

\* a refused join has left the peer joined, as actor -1
C38_JoinedByRefusal ==
    JoinResponse(liteLast, "error") /\ lite.isJoined /\ lite.myActor = -1

\* C39: isJoined implies isConnected in every state between two handlers
C39_JoinedImpliesConnected == lite.isJoined => peer.isConnected

\* what holds: the end of a connection leaves isJoined and the actor table as
\* they are
C39_JoinedSurvivesClose ==
    [][(peer.isConnected /\ ~peer'.isConnected) => lite' = lite]_vars

\* connect() has been called again on a peer that was joined when its last
\* connection ended: it is joined before it is connected
C39_StaleJoinOnReconnect == peer.isConnecting /\ ~peer.isConnected /\ lite.isJoined


(***************************************************************************)
(* The error codes handed to onError (SpecLB)                              *)
(***************************************************************************)
MasterCodes == {MasterError, MasterConnectFailed, MasterConnectClosed, MasterTimeout,
                MasterAuthenticationFailed}
GameCodes == {GameError, GameConnectFailed, GameConnectClosed, GameTimeout,
              GameAuthenticationFailed}

\* the PeerErrorCode member named after the peer and the failure
NamedErrorCode(kind, failure) ==
    CASE failure = "error" -> IF kind = "master" THEN MasterError ELSE GameError
      [] failure = "connectFailed"
             -> IF kind = "master" THEN MasterConnectFailed ELSE GameConnectFailed
      [] failure = "connectClosed"
             -> IF kind = "master" THEN MasterConnectClosed ELSE GameConnectClosed
      [] failure = "timeout" -> IF kind = "master" THEN MasterTimeout ELSE GameTimeout
      [] failure = "authenticate"
             -> IF kind = "master" THEN MasterAuthenticationFailed
                ELSE GameAuthenticationFailed

\* the onError calls of the last handler
OnErrorCalls == {lbLast.onError[i] : i \in 1..Len(lbLast.onError)}

\* C40: every onError call carries a Master* code if and only if the failure came
\* from the master peer, a Game* code if and only if it came from the game peer,
\* and the code named after the failure
C40_ErrorCodeOfPeer ==
    \A e \in OnErrorCalls :
        /\ e.code \in MasterCodes <=> e.kind = "master"
        /\ e.code \in GameCodes <=> e.kind = "game"
        /\ e.code = NamedErrorCode(e.kind, e.failure)

\* what holds: the code is the one named after the peer and the failure, except
\* that a connection closed by the game server is reported as MasterConnectClosed
C40_ErrorCodeUnlessGameClosed ==
    \A e \in OnErrorCalls :
        IF e.kind = "game" /\ e.failure = "connectClosed"
        THEN e.code = MasterConnectClosed
        ELSE /\ e.code = NamedErrorCode(e.kind, e.failure)
             /\ e.code \in MasterCodes <=> e.kind = "master"
             /\ e.code \in GameCodes <=> e.kind = "game"

\* the game server has closed the connection of a joined client
C40_GameClosedAsMaster ==
    /\ lbLast.op = "close" /\ lbLast.kind = "game"
    /\ \E e \in OnErrorCalls : e.failure = "connectClosed" /\ e.code = MasterConnectClosed

\* no failure is reported with GameConnectClosed
C40_GameConnectClosedUnused == \A e \in OnErrorCalls : e.code # GameConnectClosed

====
